---- MODULE Spec2Model ----
(***************************************************************************)
(* Model of src/csv_analyser.py: the per-resource statistics engine        *)
(* (minimum positive value, low percentiles, zero streaks) and its         *)
(* aggregators, as operations applied to a caller-held readings table.     *)
(*                                                                         *)
(* Time is counted in ticks of 1e-9 hour (3.6 microseconds), so that the   *)
(* fixed epsilon 1e-9 h of the gap tolerance is exactly one tick and a     *)
(* quarter of an hour is 250 000 000 ticks.  Values of 'wartosc' are       *)
(* integers; percentiles are kept in hundredths of a value unit, which is  *)
(* exact for the linear interpolation at 1, 2, 3 and 5 percent.            *)
(* Floating-point rounding of the source is not modelled.                  *)
(***************************************************************************)
EXTENDS Integers, Sequences, FiniteSets, TLC

VARIABLES
    df,      \* the caller's readings table: [cols, rows]
    stats,   \* the caller's all_stats table (result of all_codes_stats), or NoTable
    op,      \* name of the operation called last ("none" before any call)
    arg,     \* resource_code argument of that call (<<>> when it takes none)
    out,     \* outcome of that call: [ok, err, val]
    server,  \* the PSE API: its pages or data, the failures it will answer
             \* with, and the requests it has received
    slept,   \* the waits (seconds) the export script has slept, in order
    fetch,   \* the locals of a running fetch_all: [pc, client, endpoint,
             \* next_url, next_params, records, page]
    builder, \* the IncrementalBuilder of the session: [network, inputs,
             \* df_cap, df_attr_t, df_cap_full, params, stage_history]
    disk     \* the checkpoints directory: the files of the checkpoint
             \* saved, and how many times one was saved

vars == <<df, stats, op, arg, out, server, slept, fetch, builder, disk>>

(***************************************************************************)
(* Bounds of the model                                                     *)
(***************************************************************************)
MaxRows == 2         \* rows of a general (multi-resource) table
MaxSeriesLen == 4    \* rows of a single-resource table with free timestamps
MaxE2ELen == 6       \* rows of a single-resource table at a uniform step
MaxCodeRows == 3     \* rows of a table over several resource codes
MaxColRows == 2      \* rows of a table that lacks some of the columns

(***************************************************************************)
(* Small helpers                                                           *)
(***************************************************************************)
Max(a, b) == IF a >= b THEN a ELSE b
Abs(a) == IF a >= 0 THEN a ELSE -a
Range(s) == {s[i] : i \in 1..Len(s)}

RECURSIVE SumSeq(_)
SumSeq(s) == IF s = <<>> THEN 0 ELSE Head(s) + SumSeq(Tail(s))

\* Cells of a table: a number, a timestamp, an unparseable string, or a
\* missing value (NaN for numbers, NaT for timestamps).
Num(n) == [k |-> "num", v |-> n]
Ts(t) == [k |-> "ts", v |-> t]
Junk == [k |-> "junk", v |-> 0]
NaN == [k |-> "nan", v |-> 0]
NaT == [k |-> "nat", v |-> 0]

\* pd.to_numeric(errors="coerce") / pd.to_datetime(errors="coerce") of one cell
to_numeric(c) == IF c.k = "num" THEN c ELSE NaN
to_datetime(c) == IF c.k = "ts" THEN c ELSE NaT
notna(c) == c.k \in {"num", "ts", "junk"}

\* Outcomes of a call: a value, or a ValueError with its message and the
\* resource id the message names (<<>> when it names none)
Ok(v) == [ok |-> TRUE, err |-> "", id |-> <<>>, val |-> v]
Err(e, id) == [ok |-> FALSE, err |-> e, id |-> id, val |-> <<>>]

NoCode == <<>>       \* a missing (NaN) resource_code
NoTable == [cols |-> {}, rows |-> <<>>]

(***************************************************************************)
(* Resource codes are sequences of characters                              *)
(***************************************************************************)
Upper == <<"A", "B", "C", "D", "E", "F", "G", "H", "I", "J", "K", "L", "M",
           "N", "O", "P", "Q", "R", "S", "T", "U", "V", "W", "X", "Y", "Z">>
Lower == <<"a", "b", "c", "d", "e", "f", "g", "h", "i", "j", "k", "l", "m",
           "n", "o", "p", "q", "r", "s", "t", "u", "v", "w", "x", "y", "z">>
Digit == <<"0", "1", "2", "3", "4", "5", "6", "7", "8", "9">>

\* The code point of a character
Ord(ch) ==
    IF \E i \in 1..26 : Upper[i] = ch THEN 64 + (CHOOSE i \in 1..26 : Upper[i] = ch)
    ELSE IF \E i \in 1..26 : Lower[i] = ch THEN 96 + (CHOOSE i \in 1..26 : Lower[i] = ch)
    ELSE IF \E i \in 1..10 : Digit[i] = ch THEN 47 + (CHOOSE i \in 1..10 : Digit[i] = ch)
    ELSE IF ch = "-" THEN 45
    ELSE 32

\* Python's str.startswith
startswith(s, p) == Len(p) <= Len(s) /\ SubSeq(s, 1, Len(p)) = p

\* Python's string order (code points, shorter prefix first)
RECURSIVE StrLess(_, _)
StrLess(a, b) ==
    IF b = <<>> THEN FALSE
    ELSE IF a = <<>> THEN TRUE
    ELSE IF Ord(Head(a)) # Ord(Head(b)) THEN Ord(Head(a)) < Ord(Head(b))
    ELSE StrLess(Tail(a), Tail(b))

BEL1 == <<"B", "E", "L", "1">>
ZRN1 == <<"Z", "R", "N", "1">>
X1 == <<"X", "1">>

BEL202 == <<"B", "E", "L", " ", "2", "-", "0", "2">>
N123XYZ == <<"1", "2", "3", "X", "Y", "Z">>
UNKNOWN7 == <<"U", "N", "K", "N", "O", "W", "N", "7">>

\* A variant of the list without its first prefix
EXCLUDED_WITHOUT_ZRN ==
    { <<"P", "Z", "R">>, <<"J", "W", "7">>, <<"W", "L", "C">>,
      <<"Z", "G", "R">>, <<"S", "N", "A">>, <<"Z", "W", "A">> }

EXCLUDED_PERCENTILE_CODE_PREFIXES ==
    { <<"Z", "R", "N">>, <<"P", "Z", "R">>, <<"J", "W", "7">>, <<"W", "L", "C">>,
      <<"Z", "G", "R">>, <<"S", "N", "A">>, <<"Z", "W", "A">> }

is_excluded_from_percentiles(resource_code) ==
    \E prefix \in EXCLUDED_PERCENTILE_CODE_PREFIXES : startswith(resource_code, prefix)

\* sorted(...) of a set of codes
RECURSIVE SortedCodes(_)
SortedCodes(S) ==
    IF S = {} THEN <<>>
    ELSE LET m == CHOOSE x \in S : \A y \in S \ {x} : StrLess(x, y)
         IN <<m>> \o SortedCodes(S \ {m})

\* A variant that keeps the missing code
UniqueCodes_with_missing(t) == {t.rows[i].resource_code : i \in 1..Len(t.rows)}

\* df["resource_code"].dropna().unique()
UniqueCodes(t) == {t.rows[i].resource_code : i \in 1..Len(t.rows)} \ {NoCode}

(***************************************************************************)
(* DataFrame objects.  A local variable of a function refers either to    *)
(* the object the caller passed ("caller") or to an object created inside  *)
(* the call ("fresh").  Assigning a column mutates the object referred to. *)
(***************************************************************************)
Arg(t) == [ref |-> "caller", tbl |-> t]

\* A variant that hands back the object itself
alias(x) == x

\* DataFrame.copy()
copy(x) == [ref |-> "fresh", tbl |-> x.tbl]

\* x[mask]: boolean indexing builds a new object
RECURSIVE Masked(_, _)
Masked(rows, mask) ==
    IF rows = <<>> THEN <<>>
    ELSE (IF Head(mask) THEN <<Head(rows)>> ELSE <<>>) \o Masked(Tail(rows), Tail(mask))

BoolIndex(x, mask) ==
    [ref |-> "fresh",
     tbl |-> [cols |-> x.tbl.cols, rows |-> Masked(x.tbl.rows, mask)]]

\* x[col] = values: in-place column assignment
SetColumn(x, col, values) ==
    [ref |-> x.ref,
     tbl |-> [cols |-> x.tbl.cols \cup {col},
              rows |-> [i \in 1..Len(x.tbl.rows) |->
                          LET r == x.tbl.rows[i]
                          IN [c \in DOMAIN r \cup {col} |->
                                IF c = col THEN values[i] ELSE r[c]]]]]

\* The caller's table once the call has returned
CallerTable(t, x) == IF x.ref = "caller" THEN x.tbl ELSE t

(***************************************************************************)
(* records_for_resource                                                    *)
(***************************************************************************)
records_for_resource(t, resource_code) ==
    IF "resource_code" \notin t.cols
    THEN Err("Missing required column: resource_code", <<>>)
    ELSE Ok(copy(BoolIndex(Arg(t), [i \in 1..Len(t.rows) |->
                                         t.rows[i].resource_code = resource_code])))

(***************************************************************************)
(* zero_streaks_hours                                                      *)
(***************************************************************************)
QuarterHour == 250000000    \* 0.25 h in ticks: the fallback step
EPS == 1                    \* 1e-9 h in ticks: the fixed epsilon of the tolerance

\* A variant that only knows the column dtime
ts_col_dtime_only(cols) == "dtime"

\* ts_col = "dtime_utc" if "dtime_utc" in target.columns else "dtime"
ts_col_of(cols) == IF "dtime_utc" \in cols THEN "dtime_utc" ELSE "dtime"

\* A variant that drops only the rows without a value
dropna_wartosc_only(rows) == SelectSeq(rows, LAMBDA r : notna(r.wartosc))

\* target.dropna(subset=["timestamp", "wartosc"])
dropna(rows) == SelectSeq(rows, LAMBDA r : notna(r.timestamp) /\ notna(r.wartosc))

\* sort_values("timestamp"): for the short tables considered here numpy's
\* quicksort is an insertion sort, which keeps rows of equal timestamp in
\* their table order.
RECURSIVE InsertByTimestamp(_, _)
InsertByTimestamp(sorted, r) ==
    IF sorted = <<>> THEN <<r>>
    ELSE LET last == sorted[Len(sorted)]
         IN IF last.timestamp.v <= r.timestamp.v THEN Append(sorted, r)
            ELSE Append(InsertByTimestamp(SubSeq(sorted, 1, Len(sorted) - 1), r), last)

RECURSIVE sort_values(_)
sort_values(rows) ==
    IF rows = <<>> THEN <<>>
    ELSE InsertByTimestamp(sort_values(SubSeq(rows, 1, Len(rows) - 1)), rows[Len(rows)])

\* target["timestamp"].diff() in ticks: a series keyed by the row labels,
\* missing (NaN) for the first row
diff(rows) ==
    [i \in 1..Len(rows) |->
        [idx |-> rows[i].idx,
         v |-> IF i = 1 THEN NaN
               ELSE Num(rows[i].timestamp.v - rows[i - 1].timestamp.v)]]

\* A variant that keeps the deltas of zero as well
non_negative_diffs(rows) == SelectSeq(diff(rows), LAMBDA e : e.v.k = "num" /\ e.v.v >= 0)

\* diffs[diffs > 0]
positive_diffs(rows) == SelectSeq(diff(rows), LAMBDA e : e.v.k = "num" /\ e.v.v > 0)

\* A variant that takes the largest of the most frequent values
mode_largest(series) ==
    LET vals == {series[i].v.v : i \in 1..Len(series)}
        top == {x \in vals : \A y \in vals :
                   Cardinality({i \in 1..Len(series) : series[i].v.v = y})
                     <= Cardinality({i \in 1..Len(series) : series[i].v.v = x})}
    IN CHOOSE x \in top : \A y \in top : x >= y

\* Series.mode().iloc[0]: the smallest of the most frequent values
Count(series, x) == Cardinality({i \in 1..Len(series) : series[i].v.v = x})
mode(series) ==
    LET vals == {series[i].v.v : i \in 1..Len(series)}
        top == {x \in vals : \A y \in vals : Count(series, y) <= Count(series, x)}
    IN CHOOSE x \in top : \A y \in top : x <= y

\* step_hours, from the filtered series of positive deltas
step_of(diffs) == IF diffs # <<>> THEN mode(diffs) ELSE QuarterHour
step_hours(rows) == step_of(positive_diffs(rows))

\* tolerance = max(1e-9, step_hours * 0.01), in hundredths of a tick
tolerance100(step) == Max(100 * EPS, step)

\* d > tolerance for a whole number of ticks d (100 * d > tolerance100)
exceeds(d, step) == d > tolerance100(step) \div 100

\* A variant that takes the negative values for zeros
is_zero_or_negative(rows) == [i \in 1..Len(rows) |-> rows[i].wartosc.v <= 0]

\* is_zero = target["wartosc"] == 0
is_zero(rows) == [i \in 1..Len(rows) |-> rows[i].wartosc.v = 0]

\* diffs.reindex(target.index).fillna(step_hours): the filtered series of
\* positive deltas, completed with the step for every row label it lacks
reindex_fillna(diffs, step, idx) ==
    LET hit == {j \in 1..Len(diffs) : diffs[j].idx = idx}
    IN IF hit = {} THEN step ELSE diffs[CHOOSE j \in hit : TRUE].v.v

\* A variant that compares every delta, the non-positive ones included
gap_break_all_deltas(rows) ==
    LET step == step_of(positive_diffs(rows))
    IN [i \in 1..Len(rows) |->
          exceeds(Abs((IF i = 1 THEN step
                       ELSE rows[i].timestamp.v - rows[i - 1].timestamp.v) - step), step)]

\* gap_break = (...).sub(step_hours).abs() > tolerance
gap_break(rows) ==
    LET diffs == positive_diffs(rows)
        step == step_of(diffs)
    IN [i \in 1..Len(rows) |->
          exceeds(Abs(reindex_fillna(diffs, step, rows[i].idx) - step), step)]

\* Variants: one that ignores the gap breaks, one that starts a streak at
\* every zero row
starts_ignoring_gaps(rows) ==
    LET zero == is_zero(rows)
    IN [i \in 1..Len(rows) |-> zero[i] /\ ~(i > 1 /\ zero[i - 1])]

starts_at_every_zero(rows) == is_zero(rows)

\* starts = is_zero & ((~is_zero.shift(fill_value=False)) | gap_break)
starts(rows) ==
    LET zero == is_zero(rows)
        gap == gap_break(rows)
    IN [i \in 1..Len(rows) |-> zero[i] /\ ((~(i > 1 /\ zero[i - 1])) \/ gap[i])]

\* Series.cumsum() of a boolean series
RECURSIVE cumsum(_)
cumsum(b) ==
    IF Len(b) = 0 THEN <<>>
    ELSE LET before == cumsum(SubSeq(b, 1, Len(b) - 1))
         IN Append(before, (IF before = <<>> THEN 0 ELSE before[Len(before)])
                           + (IF b[Len(b)] THEN 1 ELSE 0))

\* streak_id = starts.cumsum()
streak_id(rows) == cumsum(starts(rows))

\* groupby("streak_id").agg(min, max, size) of the zero rows, in ascending
\* order of streak_id, and the hours column
streaks_of(rows) ==
    LET sid == streak_id(rows)
        step == step_hours(rows)
        zero == is_zero(rows)
        zero_rows == {i \in 1..Len(rows) : zero[i]}
        ids == {sid[i] : i \in zero_rows}
        member(id) == {i \in zero_rows : sid[i] = id}
        tsmin(S) == CHOOSE t \in S : \A u \in S : t <= u
        tsmax(S) == CHOOSE t \in S : \A u \in S : t >= u
        group(id) ==
            LET T == {rows[i].timestamp.v : i \in member(id)}
            IN [streak_id |-> id, start_ts |-> tsmin(T), end_ts |-> tsmax(T),
                intervals |-> Cardinality(member(id)),
                hours |-> Cardinality(member(id)) * step]
        RECURSIVE build(_)
        build(S) == IF S = {} THEN <<>>
                    ELSE LET m == CHOOSE x \in S : \A y \in S : x <= y
                         IN <<group(m)>> \o build(S \ {m})
    IN build(ids)

\* The columns of the table returned: those of the empty frame built when
\* there is no zero row, else the group key, the aggregates and "hours"
STREAK_COLS == {"streak_id", "start_ts", "end_ts", "intervals", "hours"}
streaks_columns(rows) ==
    IF streaks_of(rows) = <<>> THEN STREAK_COLS ELSE DOMAIN streaks_of(rows)[1]

\* Lines 116-117: the two column assignments on the local copy
coerce(target) ==
    LET ts_col == ts_col_of(target.tbl.cols)
        rows == target.tbl.rows
        t1 == SetColumn(target, "timestamp",
                        [i \in 1..Len(rows) |-> to_datetime(rows[i][ts_col])])
    IN SetColumn(t1, "wartosc", [i \in 1..Len(rows) |-> to_numeric(rows[i].wartosc)])

\* The resource series: the valid rows of one resource, sorted by timestamp
series_rows(target) == sort_values(dropna(coerce(target).tbl.rows))

series_of(t, resource_code) ==
    series_rows(copy(records_for_resource(t, resource_code).val))

\* The call: its outcome and the caller's table after it
zero_streaks_hours_call(t, resource_code) ==
    LET rec == records_for_resource(t, resource_code)
    IN IF ~rec.ok THEN [out |-> rec, df |-> t]
       ELSE LET target == copy(rec.val)
            IN IF target.tbl.rows = <<>>
               THEN [out |-> Err("No records found for resource_code", resource_code),
                     df |-> CallerTable(t, target)]
               ELSE IF ts_col_of(target.tbl.cols) \notin target.tbl.cols
               THEN [out |-> Err("Missing timestamp column: expected dtime_utc or dtime", <<>>),
                     df |-> CallerTable(t, target)]
               ELSE IF "wartosc" \notin target.tbl.cols
               THEN [out |-> Err("KeyError: wartosc", <<>>),
                     df |-> CallerTable(t, target)]
               ELSE LET rows == series_rows(target)
                    IN [out |-> IF rows = <<>>
                                THEN Err("No valid timestamp/wartosc rows for", resource_code)
                                ELSE Ok(streaks_of(rows)),
                        df |-> CallerTable(t, coerce(target))]

zero_streaks_hours(t, resource_code) == zero_streaks_hours_call(t, resource_code).out

(***************************************************************************)
(* resource_wartosc_stats                                                  *)
(***************************************************************************)
\* pd.to_numeric(x["wartosc"], errors="coerce").dropna(), as a list of values
numeric_wartosc(rows) ==
    LET kept == SelectSeq(rows, LAMBDA r : notna(to_numeric(r.wartosc)))
    IN [i \in 1..Len(kept) |-> to_numeric(kept[i].wartosc).v]

\* Variants of the positive filter: one keeps the zeros, one keeps the
\* negative values
not_negative_of(w) == SelectSeq(w, LAMBDA x : x >= 0)
not_zero_of(w) == SelectSeq(w, LAMBDA x : x # 0)

positive_of(w) == SelectSeq(w, LAMBDA x : x > 0)
\* A variant of the non-zero filter that keeps the positive values only
only_positive_of(w) == SelectSeq(w, LAMBDA x : x > 0)

non_zero_of(w) == SelectSeq(w, LAMBDA x : x # 0)

\* Series.min()
min_of(w) == CHOOSE x \in Range(w) : \A y \in Range(w) : x <= y

\* The values in ascending order
RECURSIVE Ascending(_)
Ascending(w) ==
    IF w = <<>> THEN <<>>
    ELSE LET m == min_of(w)
             k == CHOOSE i \in 1..Len(w) : w[i] = m
         IN <<m>> \o Ascending(SubSeq(w, 1, k - 1) \o SubSeq(w, k + 1, Len(w)))

\* A variant that interpolates between the values in table order
quantile100_unsorted(w, pct) ==
    LET h == (Len(w) - 1) * pct
        lo == (h \div 100) + 1
        frac == h % 100
    IN IF frac = 0 THEN 100 * w[lo]
       ELSE 100 * w[lo] + (w[lo + 1] - w[lo]) * frac

\* Series.quantile(pct / 100), linear interpolation between the order
\* statistics around position (n - 1) * pct / 100; in hundredths of a unit
quantile100(w, pct) ==
    LET a == Ascending(w)
        h == (Len(w) - 1) * pct
        lo == (h \div 100) + 1
        frac == h % 100
    IN IF frac = 0 THEN 100 * a[lo]
       ELSE 100 * a[lo] + (a[lo + 1] - a[lo]) * frac

\* A variant that looks for a non-zero value before it looks for a positive one
resource_wartosc_stats_non_zero_first(t, resource_code) ==
    LET rec == records_for_resource(t, resource_code)
    IN IF ~rec.ok THEN rec
       ELSE LET target == copy(rec.val)
                wartosc == numeric_wartosc(target.tbl.rows)
            IN IF target.tbl.rows = <<>>
               THEN Err("No records found for resource_code", resource_code)
               ELSE IF "wartosc" \notin target.tbl.cols
               THEN Err("KeyError: wartosc", <<>>)
               ELSE IF wartosc = <<>>
               THEN Err("No numeric wartosc values for resource_code", resource_code)
               ELSE IF non_zero_of(wartosc) = <<>>
               THEN Err("No non-zero wartosc values for resource_code", resource_code)
               ELSE IF positive_of(wartosc) = <<>>
               THEN Err("No positive wartosc values for resource_code", resource_code)
               ELSE Ok([min_non_zero |-> min_of(positive_of(wartosc)),
                        percentile_5 |-> quantile100(non_zero_of(wartosc), 5)])

resource_wartosc_stats(t, resource_code) ==
    LET rec == records_for_resource(t, resource_code)
    IN IF ~rec.ok THEN rec
       ELSE LET target == copy(rec.val)
                wartosc == numeric_wartosc(target.tbl.rows)
            IN IF target.tbl.rows = <<>>
               THEN Err("No records found for resource_code", resource_code)
               ELSE IF "wartosc" \notin target.tbl.cols
               THEN Err("KeyError: wartosc", <<>>)
               ELSE IF wartosc = <<>>
               THEN Err("No numeric wartosc values for resource_code", resource_code)
               ELSE IF positive_of(wartosc) = <<>>
               THEN Err("No positive wartosc values for resource_code", resource_code)
               ELSE IF non_zero_of(wartosc) = <<>>
               THEN Err("No non-zero wartosc values for resource_code", resource_code)
               ELSE Ok([min_non_zero |-> min_of(positive_of(wartosc)),
                        percentile_5 |-> quantile100(non_zero_of(wartosc), 5)])

(***************************************************************************)
(* get_percentile_base_codes, bel_codes_stats, all_codes_stats             *)
(***************************************************************************)
get_percentile_base_codes(t) ==
    IF "resource_code" \notin t.cols
    THEN Err("Missing required column: resource_code", <<>>)
    ELSE Ok(SelectSeq(SortedCodes(UniqueCodes(t)),
                      LAMBDA code : ~is_excluded_from_percentiles(code)))

HundredthHour == 10000000    \* 0.01 h in ticks

\* round(2) of a duration: to the nearest hundredth of an hour, halves to even
round2(h) ==
    LET q == h \div HundredthHour
        r == h % HundredthHour
    IN IF 2 * r > HundredthHour \/ (2 * r = HundredthHour /\ q % 2 = 1)
       THEN q + 1 ELSE q

max_hours(streaks) ==
    CHOOSE x \in {streaks[i].hours : i \in 1..Len(streaks)} :
        \A i \in 1..Len(streaks) : streaks[i].hours <= x

\* The streak columns of one statistics row
streak_fields(streaks) ==
    [zero_streak_count |-> Len(streaks),
     longest_zero_streak_h |-> IF streaks # <<>> THEN max_hours(streaks) ELSE 0,
     zero_streak_hours |-> [i \in 1..Len(streaks) |-> round2(streaks[i].hours)]]

bel_row(code, st, streaks) ==
    [resource_code |-> code,
     min_non_zero_wartosc |-> Num(st.min_non_zero),
     p5_non_zero_wartosc |-> Num(st.percentile_5)] @@ streak_fields(streaks)

\* The loop of bel_codes_stats over the sorted codes: the rows built, or the
\* first error raised, and the caller's table at that point
\* A variant that leaves out the codes whose statistics fail
RECURSIVE bel_loop_skipping(_, _, _)
bel_loop_skipping(t, codes, rows) ==
    IF codes = <<>> THEN [out |-> Ok(rows), df |-> t]
    ELSE LET code == Head(codes)
             st == resource_wartosc_stats(t, code)
             zs == zero_streaks_hours_call(t, code)
         IN IF ~st.ok \/ ~zs.out.ok THEN bel_loop_skipping(t, Tail(codes), rows)
            ELSE bel_loop_skipping(zs.df, Tail(codes),
                                   Append(rows, bel_row(code, st.val, zs.out.val)))

RECURSIVE bel_loop(_, _, _)
bel_loop(t, codes, rows) ==
    IF codes = <<>> THEN [out |-> Ok(rows), df |-> t]
    ELSE LET code == Head(codes)
             st == resource_wartosc_stats(t, code)
             zs == zero_streaks_hours_call(t, code)
         IN IF ~st.ok THEN [out |-> st, df |-> t]
            ELSE IF ~zs.out.ok THEN zs
            ELSE bel_loop(zs.df, Tail(codes),
                          Append(rows, bel_row(code, st.val, zs.out.val)))

BEL_COLS == {"resource_code", "min_non_zero_wartosc", "p5_non_zero_wartosc",
             "zero_streak_count", "longest_zero_streak_h", "zero_streak_hours"}

\* pd.DataFrame(rows).sort_values("resource_code").reset_index(drop=True):
\* the rows are built in sorted order of distinct codes already; a frame
\* built from no rows has no columns, and sorting it by "resource_code"
\* raises KeyError
frame_sorted(res, cols) ==
    IF ~res.out.ok THEN res
    ELSE IF res.out.val = <<>>
    THEN [out |-> Err("KeyError: resource_code", <<>>), df |-> res.df]
    ELSE [out |-> Ok([cols |-> cols, rows |-> res.out.val]), df |-> res.df]

bel_codes_stats_call(t) ==
    IF "resource_code" \notin t.cols
    THEN [out |-> Err("Missing required column: resource_code", <<>>), df |-> t]
    ELSE frame_sorted(
            bel_loop(t, SelectSeq(SortedCodes(UniqueCodes(t)),
                                  LAMBDA code : startswith(code, <<"B", "E", "L">>)), <<>>),
            BEL_COLS)

bel_codes_stats(t) == bel_codes_stats_call(t).out

\* A variant that computes the percentile for the excluded codes too
percentile_cell_any_code(included, non_zero, pct) ==
    IF non_zero # <<>> THEN Num(quantile100(non_zero, pct)) ELSE NaN

\* One percentile column of all_codes_stats
percentile_cell(included, non_zero, pct) ==
    IF included /\ non_zero # <<>> THEN Num(quantile100(non_zero, pct)) ELSE NaN

all_row(code, included, wartosc, streaks) ==
    [resource_code |-> code,
     percentile_base_included |-> included,
     min_non_zero_wartosc |->
        IF positive_of(wartosc) # <<>> THEN Num(min_of(positive_of(wartosc))) ELSE NaN,
     p1_non_zero_wartosc |-> percentile_cell(included, non_zero_of(wartosc), 1),
     p2_non_zero_wartosc |-> percentile_cell(included, non_zero_of(wartosc), 2),
     p3_non_zero_wartosc |-> percentile_cell(included, non_zero_of(wartosc), 3),
     p5_non_zero_wartosc |-> percentile_cell(included, non_zero_of(wartosc), 5)]
    @@ streak_fields(streaks)

RECURSIVE all_loop(_, _, _, _)
all_loop(t, codes, base, rows) ==
    IF codes = <<>> THEN [out |-> Ok(rows), df |-> t]
    ELSE LET code == Head(codes)
             subset == records_for_resource(t, code).val
             zs == zero_streaks_hours_call(t, code)
         IN IF "wartosc" \notin subset.tbl.cols
            THEN [out |-> Err("KeyError: wartosc", <<>>), df |-> t]
            ELSE IF ~zs.out.ok THEN zs
            ELSE all_loop(zs.df, Tail(codes), base,
                          Append(rows, all_row(code, code \in base,
                                               numeric_wartosc(subset.tbl.rows),
                                               zs.out.val)))

ALL_COLS == BEL_COLS \cup {"percentile_base_included", "p1_non_zero_wartosc",
                           "p2_non_zero_wartosc", "p3_non_zero_wartosc"}

all_codes_stats_call(t) ==
    IF "resource_code" \notin t.cols
    THEN [out |-> Err("Missing required column: resource_code", <<>>), df |-> t]
    ELSE frame_sorted(
            all_loop(t, SortedCodes(UniqueCodes(t)),
                     Range(get_percentile_base_codes(t).val), <<>>),
            ALL_COLS)

all_codes_stats(t) == all_codes_stats_call(t).out

(***************************************************************************)
(* min_positive_per_resource                                               *)
(***************************************************************************)
\* groupby("resource_code")["wartosc"].idxmin(): per code (missing codes
\* are dropped), the first row holding the smallest value
idxmin_rows(rows) ==
    LET codes == SortedCodes({rows[i].resource_code : i \in 1..Len(rows)} \ {NoCode})
        pick(code) ==
            LET mine == SelectSeq(rows, LAMBDA r : r.resource_code = code)
                m == min_of([i \in 1..Len(mine) |-> mine[i].wartosc.v])
            IN mine[CHOOSE i \in 1..Len(mine) :
                        /\ mine[i].wartosc.v = m
                        /\ \A j \in 1..(i - 1) : mine[j].wartosc.v # m]
    IN [i \in 1..Len(codes) |-> pick(codes[i])]

min_positive_per_resource_call(t) ==
    IF {"resource_code", "wartosc"} \ t.cols # {}
    THEN [out |-> Err("Missing required columns", {"resource_code", "wartosc"} \ t.cols),
          df |-> t]
    ELSE LET work == SetColumn(copy(Arg(t)), "wartosc",
                               [i \in 1..Len(t.rows) |-> to_numeric(t.rows[i].wartosc)])
             w == work.tbl.rows
             positive == copy(BoolIndex(work, [i \in 1..Len(w) |->
                                 w[i].wartosc.k = "num" /\ w[i].wartosc.v > 0]))
         IN [out |-> IF positive.tbl.rows = <<>> THEN Ok(positive.tbl)
                     ELSE Ok([cols |-> positive.tbl.cols,
                              rows |-> idxmin_rows(positive.tbl.rows)]),
             df |-> CallerTable(t, work)]

min_positive_per_resource(t) == min_positive_per_resource_call(t).out

(***************************************************************************)
(* p5_subtotals_by_family                                                  *)
(***************************************************************************)
\* A variant that takes the digits for letters
IsLetterOrDigit(ch) == Ord(ch) \in 65..90 \/ Ord(ch) \in 97..122 \/ Ord(ch) \in 48..57

IsLetter(ch) == Ord(ch) \in 65..90 \/ Ord(ch) \in 97..122

\* str.extract(r"^([A-Za-z]+)"): the leading run of letters
RECURSIVE LeadingLetters(_)
LeadingLetters(code) ==
    IF code # <<>> /\ IsLetter(Head(code))
    THEN <<Head(code)>> \o LeadingLetters(Tail(code))
    ELSE <<>>

UNKNOWN == <<"U", "N", "K", "N", "O", "W", "N">>

code_family(code) ==
    IF LeadingLetters(code) = <<>> THEN UNKNOWN ELSE LeadingLetters(code)

P_COLS == {"p1_non_zero_wartosc", "p2_non_zero_wartosc",
           "p3_non_zero_wartosc", "p5_non_zero_wartosc"}

\* A variant that takes the value of the first member for the sum
sum_cells_first_member(rows, col) ==
    IF rows # <<>> /\ rows[1][col].k = "num" THEN rows[1][col].v ELSE 0

\* groupby sum of one percentile column: missing values are skipped
sum_cells(rows, col) ==
    SumSeq([i \in 1..Len(rows) |-> IF rows[i][col].k = "num" THEN rows[i][col].v ELSE 0])

subtotal_row(family, members) ==
    [code_family |-> family,
     resource_code_count |-> Len(members),
     percentile_base_code_count |->
        Len(SelectSeq(members, LAMBDA r : r.percentile_base_included)),
     p1_non_zero_wartosc_subtotal |-> sum_cells(members, "p1_non_zero_wartosc"),
     p2_non_zero_wartosc_subtotal |-> sum_cells(members, "p2_non_zero_wartosc"),
     p3_non_zero_wartosc_subtotal |-> sum_cells(members, "p3_non_zero_wartosc"),
     p5_non_zero_wartosc_subtotal |-> sum_cells(members, "p5_non_zero_wartosc")]

p5_subtotals_by_family_call(stats_df) ==
    IF ({"resource_code"} \cup P_COLS) \ stats_df.cols # {}
    THEN [out |-> Err("Missing required columns",
                      ({"resource_code"} \cup P_COLS) \ stats_df.cols),
          df |-> stats_df]
    ELSE LET work0 == copy(Arg(stats_df))
             work1 == IF "percentile_base_included" \notin work0.tbl.cols
                      THEN SetColumn(work0, "percentile_base_included",
                                     [i \in 1..Len(stats_df.rows) |->
                                        ~is_excluded_from_percentiles(
                                            stats_df.rows[i].resource_code)])
                      ELSE work0
             work == SetColumn(work1, "code_family",
                               [i \in 1..Len(stats_df.rows) |->
                                  code_family(stats_df.rows[i].resource_code)])
             families == SortedCodes({work.tbl.rows[i].code_family :
                                        i \in 1..Len(work.tbl.rows)})
         IN [out |-> Ok([i \in 1..Len(families) |->
                            subtotal_row(families[i],
                                SelectSeq(work.tbl.rows,
                                          LAMBDA r : r.code_family = families[i]))]),
             df |-> CallerTable(stats_df, work)]

p5_subtotals_by_family(stats_df) == p5_subtotals_by_family_call(stats_df).out

(***************************************************************************)
(* The tables the operations are applied to                                *)
(***************************************************************************)
COLS == {"resource_code", "dtime", "wartosc"}

\* A table as loaded from a file: the rows labelled 0, 1, ... in file order
Loaded(cells) ==
    [cols |-> COLS,
     rows |-> [i \in 1..Len(cells) |->
                 [idx |-> i - 1, resource_code |-> cells[i].resource_code,
                  dtime |-> cells[i].dtime, wartosc |-> cells[i].wartosc]]]

Reverse(s) == [i \in 1..Len(s) |-> s[Len(s) + 1 - i]]

\* General tables: several resources, rows in any order, unparseable cells
GeneralCells ==
    [resource_code : {BEL1, ZRN1},
     dtime : {Ts(0), Ts(QuarterHour), Junk},
     wartosc : {Num(-2), Num(0), Num(3), Num(5), Junk}]

\* Single-resource tables whose timestamps are given by their deltas: a
\* repeated timestamp, a step, a jittered step, a long gap
Deltas == {0, 200, 201, 1800}

RECURSIVE TimeAt(_, _)
TimeAt(deltas, i) == IF i = 1 THEN 0 ELSE TimeAt(deltas, i - 1) + deltas[i - 1]

SeriesCells(deltas, vals) ==
    [i \in 1..Len(vals) |->
        [resource_code |-> X1, dtime |-> Ts(TimeAt(deltas, i)), wartosc |-> Num(vals[i])]]

\* Nothing, a row whose value does not parse, a zero row whose timestamp
\* does not parse
BadRows ==
    { <<>>,
      <<[resource_code |-> X1, dtime |-> Ts(200), wartosc |-> Junk]>>,
      <<[resource_code |-> X1, dtime |-> Junk, wartosc |-> Num(0)]>> }

\* The deltas of a table at a uniform step of a quarter of an hour
Uniform(n) == [i \in 1..(n - 1) |-> QuarterHour]

\* Tables of several resources, some rows without a resource_code: every
\* row has a valid timestamp (a quarter of an hour after the row before it)
\* and a numeric value, which may be zero for the BEL codes
CodeCells ==
    [resource_code : {BEL1, BEL202}, wartosc : {Num(0), Num(3), Num(5)}]
    \cup [resource_code : {ZRN1, N123XYZ, UNKNOWN7, NoCode}, wartosc : {Num(5)}]
CodeRows(cells) ==
    [i \in 1..Len(cells) |->
        [resource_code |-> cells[i].resource_code,
         dtime |-> Ts((i - 1) * QuarterHour),
         wartosc |-> cells[i].wartosc]]

\* Tables that hold only some of the columns resource_code, dtime_utc,
\* dtime and wartosc
ALL_COLUMNS == {"resource_code", "dtime_utc", "dtime", "wartosc"}
ColCells == [resource_code : {BEL1, ZRN1}, wartosc : {Num(0), Num(5)}]
WithColumns(cells, cols) ==
    [cols |-> cols,
     rows |-> [i \in 1..Len(cells) |->
                 [c \in cols \cup {"idx"} |->
                    IF c = "idx" THEN i - 1
                    ELSE IF c \in {"dtime", "dtime_utc"} THEN Ts((i - 1) * QuarterHour)
                    ELSE cells[i][c]]]]

\* The resource ids the per-resource operations are called with
ArgCodes(t) == (IF "resource_code" \in t.cols THEN UniqueCodes(t) ELSE {}) \cup {X1}

(***************************************************************************)
(* Initial states and operations                                           *)
(***************************************************************************)
None == [k |-> "None"]
NoServer == [kind |-> "none", faults |-> <<>>, requests |-> <<>>]
NotFetching == [pc |-> "idle"]
NoDisk == [saved |-> None, saves |-> 0]

NoCall == /\ stats = NoTable
          /\ op = "none"
          /\ arg = <<>>
          /\ out = Ok(<<>>)
          /\ server = NoServer
          /\ slept = <<>>
          /\ fetch = NotFetching
          /\ builder = None
          /\ disk = NoDisk

\* General tables: up to MaxRows rows of any cells, in any order
Init ==
    /\ \E n \in 0..MaxRows : \E cells \in [1..n -> GeneralCells] : df = Loaded(cells)
    /\ NoCall

\* Single-resource tables with free deltas: in time order, alone or after
\* one row that does not parse, or in reverse order
InitSeries ==
    /\ \E n \in 1..MaxSeriesLen :
         \E deltas \in [1..(n - 1) -> Deltas], vals \in [1..n -> {0, 5}] :
            \/ \E bad \in BadRows : df = Loaded(bad \o SeriesCells(deltas, vals))
            \/ df = Loaded(Reverse(SeriesCells(deltas, vals)))
    /\ NoCall

\* Single-resource tables at a uniform step of a quarter of an hour
InitE2E ==
    /\ \E n \in 0..MaxE2ELen : \E vals \in [1..n -> {0, 3, 5}] :
            df = Loaded(SeriesCells(Uniform(n), vals))
    /\ NoCall

\* Tables of up to MaxCodeRows rows over several resource codes
InitCodes ==
    /\ \E n \in 0..MaxCodeRows : \E cells \in [1..n -> CodeCells] :
            df = Loaded(CodeRows(cells))
    /\ NoCall

\* Tables of up to MaxColRows rows with any of the columns
InitCols ==
    /\ \E n \in 0..MaxColRows : \E cells \in [1..n -> ColCells] :
         \E cols \in SUBSET ALL_COLUMNS : df = WithColumns(cells, cols)
    /\ NoCall

\* An operation is called when the result of the call before it has been
\* consumed; its outcome is held until then
Returns(name, code, call) ==
    LET c == call
    IN /\ op = "none"
       /\ op' = name
       /\ arg' = code
       /\ out' = c.out
       /\ df' = c.df
       /\ UNCHANGED <<server, slept, fetch, builder, disk>>

GetPercentileBaseCodes ==
    /\ Returns("get_percentile_base_codes", <<>>,
               [out |-> get_percentile_base_codes(df), df |-> df])
    /\ UNCHANGED stats

MinPositivePerResource ==
    /\ Returns("min_positive_per_resource", <<>>, min_positive_per_resource_call(df))
    /\ UNCHANGED stats

RecordsForResource ==
    \E code \in ArgCodes(df) :
        /\ Returns("records_for_resource", code,
                   LET rec == records_for_resource(df, code)
                   IN [out |-> IF rec.ok THEN Ok(rec.val.tbl) ELSE rec,
                       df |-> IF rec.ok THEN CallerTable(df, rec.val) ELSE df])
        /\ UNCHANGED stats

ResourceWartoscStats ==
    \E code \in ArgCodes(df) :
        /\ Returns("resource_wartosc_stats", code,
                   [out |-> resource_wartosc_stats(df, code), df |-> df])
        /\ UNCHANGED stats

ZeroStreaksHours ==
    \E code \in ArgCodes(df) :
        /\ Returns("zero_streaks_hours", code, zero_streaks_hours_call(df, code))
        /\ UNCHANGED stats

BelCodesStats ==
    /\ Returns("bel_codes_stats", <<>>, bel_codes_stats_call(df))
    /\ UNCHANGED stats

\* all_stats = all_codes_stats(df): the caller keeps the table returned
AllCodesStats ==
    /\ Returns("all_codes_stats", <<>>, all_codes_stats_call(df))
    /\ stats' = IF out'.ok THEN out'.val ELSE stats

\* family_subtotals = p5_subtotals_by_family(all_stats)
P5SubtotalsByFamily ==
    /\ op = "none"
    /\ stats # NoTable
    /\ op' = "p5_subtotals_by_family"
    /\ arg' = <<>>
    /\ LET c == p5_subtotals_by_family_call(stats)
       IN out' = c.out /\ stats' = c.df
    /\ UNCHANGED <<df, server, slept, fetch, builder, disk>>

\* The caller has consumed (printed) the result of the last call
Consume ==
    /\ op # "none"
    /\ op' = "none"
    /\ arg' = <<>>
    /\ out' = Ok(<<>>)
    /\ UNCHANGED <<df, stats, server, slept, fetch, builder, disk>>

Next ==
    \/ GetPercentileBaseCodes
    \/ MinPositivePerResource
    \/ RecordsForResource
    \/ ResourceWartoscStats
    \/ ZeroStreaksHours
    \/ BelCodesStats
    \/ AllCodesStats
    \/ P5SubtotalsByFamily
    \/ Consume

Spec == Init /\ [][Next]_vars
SpecSeries == InitSeries /\ [][Next]_vars
SpecE2E == InitE2E /\ [][Next]_vars
SpecCodes == InitCodes /\ [][Next]_vars
SpecCols == InitCols /\ [][Next]_vars

(***************************************************************************)
(* Notions the properties are stated with, defined from the table itself   *)
(***************************************************************************)
CalledOk(name) == op = name /\ out.ok

\* The rows of one resource whose timestamp and value both parse
ValidRows(t, code) ==
    {i \in 1..Len(t.rows) : /\ t.rows[i].resource_code = code
                            /\ t.rows[i].dtime.k = "ts"
                            /\ t.rows[i].wartosc.k = "num"}
ValidZeroRows(t, code) == {i \in ValidRows(t, code) : t.rows[i].wartosc.v = 0}

Intervals(streaks) == [k \in 1..Len(streaks) |-> streaks[k].intervals]

\* The positions of the zero rows of a sorted series, in ascending order
ZeroPositions(rows) ==
    SelectSeq([i \in 1..Len(rows) |-> i], LAMBDA i : rows[i].wartosc.v = 0)

\* The delta of row i of a sorted series from the row before it
Delta(rows, i) == rows[i].timestamp.v - rows[i - 1].timestamp.v

\* The delta of row i differs from the dominant step by more than 1e-9 h
\* and by more than 1% of the step (a whole number of ticks exceeds
\* step / 100 exactly when it exceeds the quotient rounded down)
OffStep(rows, i) ==
    LET off == Abs(Delta(rows, i) - step_hours(rows))
    IN off > EPS /\ off > step_hours(rows) \div 100

\* The table [t0: 0, t0 + step: 0, t0 + 10 * step: 0] with step = 200 ticks
GapExample == Loaded(SeriesCells(<<200, 1800>>, <<0, 0, 0>>))

(***************************************************************************)
(* C1: a zero row that is a gap break starts a new streak, even after a    *)
(* zero row: some streak starts at that row's timestamp and no streak      *)
(* reaches across it.  The series [t0:0, t0+step:0, t0+10*step:0] gives    *)
(* exactly two streaks, of 2 and of 1 intervals.                           *)
(***************************************************************************)
C1_GapStartsNewStreak ==
    CalledOk("zero_streaks_hours") =>
        LET rows == series_of(df, arg)
            gap == gap_break(rows)
            S == out.val
        IN /\ \A i \in 2..Len(rows) :
                (rows[i].wartosc.v = 0 /\ gap[i]) =>
                    /\ \E k \in 1..Len(S) : S[k].start_ts = rows[i].timestamp.v
                    /\ \A k \in 1..Len(S) :
                          ~(S[k].start_ts < rows[i].timestamp.v
                            /\ S[k].end_ts >= rows[i].timestamp.v)
           /\ (df = GapExample /\ arg = X1) => Intervals(S) = <<2, 1>>

C1_Witness ==
    /\ CalledOk("zero_streaks_hours")
    /\ df = GapExample
    /\ arg = X1
    /\ Len(out.val) = 2

(***************************************************************************)
(* C2: the intervals of the streaks returned for a resource add up to the  *)
(* number of its rows whose timestamp and value parse and whose value is 0 *)
(***************************************************************************)
C2_IntervalsCountZeroRows ==
    CalledOk("zero_streaks_hours") =>
        SumSeq(Intervals(out.val)) = Cardinality(ValidZeroRows(df, arg))

\* several streaks, and a zero row that is left out because its timestamp
\* does not parse
C2_Witness ==
    /\ CalledOk("zero_streaks_hours")
    /\ Len(out.val) >= 2
    /\ SumSeq(Intervals(out.val)) >= 3
    /\ \E i \in 1..Len(df.rows) :
          /\ df.rows[i].resource_code = arg
          /\ df.rows[i].dtime.k = "junk"
          /\ df.rows[i].wartosc = Num(0)

(***************************************************************************)
(* C3: streaks are maximal.  Streak k covers a run of consecutive rows of  *)
(* the sorted series, all zero, none of which after the first is a gap     *)
(* break; between two streaks that follow each other there is a non-zero   *)
(* row, or the later streak's first row is off the dominant step by more   *)
(* than the tolerance.                                                     *)
(***************************************************************************)
C3_StreaksAreMaximal ==
    CalledOk("zero_streaks_hours") =>
        LET rows == series_of(df, arg)
            gap == gap_break(rows)
            Z == ZeroPositions(rows)
            S == out.val
            before(k) == SumSeq(SubSeq(Intervals(S), 1, k - 1))
            first(k) == Z[before(k) + 1]
            last(k) == Z[before(k) + S[k].intervals]
        IN /\ SumSeq(Intervals(S)) = Len(Z)
           /\ \A k \in 1..Len(S) :
                /\ S[k].intervals >= 1
                /\ last(k) - first(k) + 1 = S[k].intervals
                /\ S[k].start_ts = rows[first(k)].timestamp.v
                /\ S[k].end_ts = rows[last(k)].timestamp.v
                /\ \A i \in (first(k) + 1)..last(k) : ~gap[i]
           /\ \A k \in 1..(Len(S) - 1) :
                \/ first(k + 1) > last(k) + 1
                \/ OffStep(rows, first(k + 1))

\* two streaks with nothing between them but a gap, and a streak of
\* several rows
C3_Witness ==
    /\ CalledOk("zero_streaks_hours")
    /\ Len(out.val) >= 2
    /\ \E k \in 1..Len(out.val) : out.val[k].intervals >= 2
    /\ \A i \in ValidRows(df, arg) : df.rows[i].wartosc.v = 0

(***************************************************************************)
(* C4: the gap-break flag.                                                 *)
(* As claimed: true exactly when the delta from the previous row differs   *)
(* from the dominant step by more than the tolerance, for every delta,     *)
(* a delta of zero included; false for the first row.                      *)
(***************************************************************************)
C4_GapFlagForEveryDelta ==
    CalledOk("zero_streaks_hours") =>
        LET rows == series_of(df, arg)
        IN \A i \in 1..Len(rows) :
              gap_break(rows)[i] <=> (i > 1 /\ OffStep(rows, i))

(***************************************************************************)
(* C4, amended: the flag is true exactly when the delta from the previous  *)
(* row is positive and differs from the dominant step by more than the     *)
(* tolerance; a row at the timestamp of the row before it, like the first  *)
(* row, is never a gap break.                                              *)
(***************************************************************************)
C4_GapFlagForPositiveDelta ==
    CalledOk("zero_streaks_hours") =>
        LET rows == series_of(df, arg)
        IN \A i \in 1..Len(rows) :
              gap_break(rows)[i] <=> (i > 1 /\ Delta(rows, i) > 0 /\ OffStep(rows, i))

\* a series with a row at the timestamp of the row before it, which is no
\* gap break, and a positive delta off the dominant step, which is one
C4_Witness ==
    /\ CalledOk("zero_streaks_hours")
    /\ LET rows == series_of(df, arg)
       IN /\ \E i \in 2..Len(rows) : Delta(rows, i) = 0 /\ ~gap_break(rows)[i]
          /\ \E i \in 2..Len(rows) : Delta(rows, i) > 0 /\ gap_break(rows)[i]

(***************************************************************************)
(* C5: for the table whose only resource X1 has the values                 *)
(* [5, 0, 0, 0, 3, 0] at a uniform step of 15 minutes, the minimum         *)
(* positive value is 3 and the streaks are, in time order, one of 3        *)
(* intervals (0.75 h) over rows 2-4 and one of 1 interval (0.25 h) at the  *)
(* last row.                                                               *)
(***************************************************************************)
E2EExample == Loaded(SeriesCells(Uniform(6), <<5, 0, 0, 0, 3, 0>>))

C5_EndToEnd ==
    (df = E2EExample /\ arg = X1) =>
        /\ op = "resource_wartosc_stats" =>
                out.ok /\ out.val.min_non_zero = 3
        /\ op = "zero_streaks_hours" =>
                /\ out.ok
                /\ out.val =
                     << [streak_id |-> 1, start_ts |-> QuarterHour,
                         end_ts |-> 3 * QuarterHour, intervals |-> 3,
                         hours |-> 3 * QuarterHour],
                        [streak_id |-> 2, start_ts |-> 5 * QuarterHour,
                         end_ts |-> 5 * QuarterHour, intervals |-> 1,
                         hours |-> QuarterHour] >>

C5_Witness ==
    /\ df = E2EExample
    /\ arg = X1
    /\ CalledOk("zero_streaks_hours")
    /\ Len(out.val) = 2

(***************************************************************************)
(* The values of one resource, read off the table                          *)
(***************************************************************************)
NumericRows(t, code) ==
    {i \in 1..Len(t.rows) : t.rows[i].resource_code = code /\ t.rows[i].wartosc.k = "num"}
PosVals(t, code) ==
    {t.rows[i].wartosc.v : i \in {j \in NumericRows(t, code) : t.rows[j].wartosc.v > 0}}
NonZeroRows(t, code) == {i \in NumericRows(t, code) : t.rows[i].wartosc.v # 0}
NonZeroVals(t, code) == {t.rows[i].wartosc.v : i \in NonZeroRows(t, code)}
Least(S) == CHOOSE x \in S : \A y \in S : x <= y
Greatest(S) == CHOOSE x \in S : \A y \in S : x >= y

\* The k-th smallest non-zero value: fewer than k rows lie below it and at
\* least k rows do not lie above it
OrderStat(t, code, k) ==
    CHOOSE x \in NonZeroVals(t, code) :
        /\ Cardinality({i \in NonZeroRows(t, code) : t.rows[i].wartosc.v < x}) < k
        /\ Cardinality({i \in NonZeroRows(t, code) : t.rows[i].wartosc.v <= x}) >= k

\* The pct-th percentile of the non-zero values, in hundredths: the weighted
\* mean of the two order statistics around position (n - 1) * pct / 100
RefPercentile100(t, code, pct) ==
    LET n == Cardinality(NonZeroRows(t, code))
        h == (n - 1) * pct
        lo == (h \div 100) + 1
        hi == IF lo < n THEN lo + 1 ELSE n
    IN (100 - (h % 100)) * OrderStat(t, code, lo) + (h % 100) * OrderStat(t, code, hi)

StatRows == IF out.ok /\ op \in {"bel_codes_stats", "all_codes_stats"}
            THEN out.val.rows ELSE <<>>

(***************************************************************************)
(* C6: for a resource with a positive numeric value the minimum positive   *)
(* value, as returned by resource_wartosc_stats and as shown in the        *)
(* min_non_zero_wartosc column of the aggregators, is greater than 0, is   *)
(* one of the values of the series and is not above any positive value of  *)
(* it, whatever zeros, negative and unparseable values the series holds.   *)
(***************************************************************************)
C6_MinimumPositive ==
    /\ (op = "resource_wartosc_stats" /\ PosVals(df, arg) # {}) =>
            /\ out.ok
            /\ out.val.min_non_zero > 0
            /\ out.val.min_non_zero \in PosVals(df, arg)
            /\ \A x \in PosVals(df, arg) : out.val.min_non_zero <= x
    /\ \A k \in 1..Len(StatRows) :
          LET r == StatRows[k]
          IN PosVals(df, r.resource_code) # {} =>
                /\ r.min_non_zero_wartosc.k = "num"
                /\ r.min_non_zero_wartosc.v > 0
                /\ r.min_non_zero_wartosc.v \in PosVals(df, r.resource_code)
                /\ \A x \in PosVals(df, r.resource_code) : r.min_non_zero_wartosc.v <= x

\* an aggregate row of a resource that has a positive value and a value
\* that is not positive
C6_Witness ==
    /\ CalledOk("all_codes_stats")
    /\ \E k \in 1..Len(StatRows) :
          /\ StatRows[k].min_non_zero_wartosc.k = "num"
          /\ \E i \in NumericRows(df, StatRows[k].resource_code) : df.rows[i].wartosc.v <= 0

(***************************************************************************)
(* C7: for an eligible resource with a non-zero value the percentiles of   *)
(* all_codes_stats are ordered p1 <= p2 <= p3 <= p5, lie between the least *)
(* and the greatest non-zero value, and are all equal to the value when    *)
(* the non-zero values are all equal.                                      *)
(***************************************************************************)
C7_PercentilesOrdered ==
    CalledOk("all_codes_stats") =>
        \A k \in 1..Len(StatRows) :
            LET r == StatRows[k]
                nz == NonZeroVals(df, r.resource_code)
            IN (r.percentile_base_included /\ nz # {}) =>
                /\ r.p1_non_zero_wartosc.k = "num" /\ r.p2_non_zero_wartosc.k = "num"
                /\ r.p3_non_zero_wartosc.k = "num" /\ r.p5_non_zero_wartosc.k = "num"
                /\ 100 * Least(nz) <= r.p1_non_zero_wartosc.v
                /\ r.p1_non_zero_wartosc.v <= r.p2_non_zero_wartosc.v
                /\ r.p2_non_zero_wartosc.v <= r.p3_non_zero_wartosc.v
                /\ r.p3_non_zero_wartosc.v <= r.p5_non_zero_wartosc.v
                /\ r.p5_non_zero_wartosc.v <= 100 * Greatest(nz)
                /\ Cardinality(nz) = 1 =>
                      /\ r.p1_non_zero_wartosc.v = 100 * Least(nz)
                      /\ r.p5_non_zero_wartosc.v = 100 * Least(nz)

\* an eligible resource whose percentiles differ
C7_Witness ==
    /\ CalledOk("all_codes_stats")
    /\ \E k \in 1..Len(StatRows) :
          /\ StatRows[k].percentile_base_included
          /\ StatRows[k].p1_non_zero_wartosc.k = "num"
          /\ StatRows[k].p1_non_zero_wartosc.v < StatRows[k].p5_non_zero_wartosc.v

(***************************************************************************)
(* C8: the percentiles are those of the numeric values other than zero     *)
(* (the negative ones included, zeros and unparseable values left out), in *)
(* all_codes_stats as in resource_wartosc_stats, so that both give the     *)
(* same 5th percentile for an eligible resource with a positive value.     *)
(***************************************************************************)
C8_PercentilesOverNonZero ==
    /\ CalledOk("resource_wartosc_stats") =>
            out.val.percentile_5 = RefPercentile100(df, arg, 5)
    /\ CalledOk("all_codes_stats") =>
        \A k \in 1..Len(StatRows) :
            LET r == StatRows[k]
                code == r.resource_code
            IN (r.percentile_base_included /\ NonZeroVals(df, code) # {}) =>
                /\ r.p1_non_zero_wartosc = Num(RefPercentile100(df, code, 1))
                /\ r.p2_non_zero_wartosc = Num(RefPercentile100(df, code, 2))
                /\ r.p3_non_zero_wartosc = Num(RefPercentile100(df, code, 3))
                /\ r.p5_non_zero_wartosc = Num(RefPercentile100(df, code, 5))
                /\ PosVals(df, code) # {} =>
                      /\ resource_wartosc_stats(df, code).ok
                      /\ r.p5_non_zero_wartosc.v
                            = resource_wartosc_stats(df, code).val.percentile_5

\* with a negative value in the series the 5th percentile is below the
\* minimum positive value
C8_Witness ==
    /\ CalledOk("resource_wartosc_stats")
    /\ \E i \in NumericRows(df, arg) : df.rows[i].wartosc.v < 0
    /\ out.val.percentile_5 < 100 * out.val.min_non_zero

(***************************************************************************)
(* C10: no operation changes the table it is given: the readings table is  *)
(* the same after every call, and the statistics table is only ever        *)
(* replaced by the caller storing the result of all_codes_stats.           *)
(***************************************************************************)
C10_InputTableUnchanged ==
    [][df' = df /\ (op' # "all_codes_stats" => stats' = stats)]_vars

\* the family subtotals have been computed from a statistics table, over a
\* readings table that holds an unparseable value, and neither table has
\* gained a column
C10_Witness ==
    /\ CalledOk("p5_subtotals_by_family")
    /\ out.val # <<>>
    /\ stats.cols = ALL_COLS
    /\ df.cols = COLS
    /\ \E i \in 1..Len(df.rows) : df.rows[i].wartosc = Junk

(***************************************************************************)
(* C11: resource_wartosc_stats reports, in this order and with the         *)
(* resource id, that the id has no records, that no value of it is         *)
(* numeric, or that no value of it is positive, and it returns values      *)
(* otherwise.  The statement that a series without a non-zero value gets   *)
(* the fourth error, "No non-zero wartosc values", is                      *)
(* C11_NoNonZeroValuesError; the code never raises that error, because a   *)
(* series that passed the third check has a positive, hence non-zero,      *)
(* value (C11_ThreeErrorsInOrder).                                         *)
(***************************************************************************)
RowsOf(t, code) == {i \in 1..Len(t.rows) : t.rows[i].resource_code = code}

C11_NoNonZeroValuesError ==
    (op = "resource_wartosc_stats" /\ NumericRows(df, arg) # {} /\ NonZeroVals(df, arg) = {})
        => out = Err("No non-zero wartosc values for resource_code", arg)

C11_ThreeErrorsInOrder ==
    op = "resource_wartosc_stats" =>
        /\ IF RowsOf(df, arg) = {}
           THEN out = Err("No records found for resource_code", arg)
           ELSE IF NumericRows(df, arg) = {}
           THEN out = Err("No numeric wartosc values for resource_code", arg)
           ELSE IF PosVals(df, arg) = {}
           THEN out = Err("No positive wartosc values for resource_code", arg)
           ELSE out.ok
        /\ out.err # "No non-zero wartosc values for resource_code"

\* a series whose numeric values are all zero gets the third error
C11_Witness ==
    /\ op = "resource_wartosc_stats"
    /\ NumericRows(df, arg) # {}
    /\ NonZeroVals(df, arg) = {}
    /\ out = Err("No positive wartosc values for resource_code", arg)

(***************************************************************************)
(* C12: the aggregators and the per-resource errors.  The statement that   *)
(* both aggregators fail whenever a resource they process has no numeric   *)
(* or no positive value is C12_EveryResourceErrorSurfaces.  What the code  *)
(* does is C12_AggregatorErrors: bel_codes_stats fails with the error of   *)
(* such a resource; all_codes_stats fails, with the error of               *)
(* zero_streaks_hours, only when a resource has no row with a valid        *)
(* timestamp and value, and otherwise returns a row for every resource,    *)
(* whose minimum is missing exactly when the resource has no positive      *)
(* value.                                                                  *)
(***************************************************************************)
BelCodes(t) == {c \in UniqueCodes(t) : Len(c) >= 3 /\ SubSeq(c, 1, 3) = <<"B", "E", "L">>}
Failing(t, codes) == {c \in codes : NumericRows(t, c) = {} \/ PosVals(t, c) = {}}
NoValidRow(t, codes) == {c \in codes : ValidRows(t, c) = {}}

C12_EveryResourceErrorSurfaces ==
    /\ (op = "bel_codes_stats" /\ Failing(df, BelCodes(df)) # {}) => ~out.ok
    /\ (op = "all_codes_stats" /\ Failing(df, UniqueCodes(df)) # {}) => ~out.ok

C12_AggregatorErrors ==
    /\ (op = "bel_codes_stats" /\ Failing(df, BelCodes(df)) # {}) =>
            /\ ~out.ok
            /\ out.id \in Failing(df, BelCodes(df))
            /\ out.err \in {"No numeric wartosc values for resource_code",
                            "No positive wartosc values for resource_code"}
    /\ (op = "all_codes_stats" /\ UniqueCodes(df) # {}) =>
            IF NoValidRow(df, UniqueCodes(df)) # {}
            THEN /\ ~out.ok
                 /\ out.err = "No valid timestamp/wartosc rows for"
                 /\ out.id \in NoValidRow(df, UniqueCodes(df))
            ELSE /\ out.ok
                 /\ {out.val.rows[k].resource_code : k \in 1..Len(out.val.rows)}
                        = UniqueCodes(df)
                 /\ \A k \in 1..Len(out.val.rows) :
                        (out.val.rows[k].min_non_zero_wartosc = NaN)
                            <=> (PosVals(df, out.val.rows[k].resource_code) = {})

\* all_codes_stats has returned a row without a minimum for a resource that
\* has no positive value
C12_Witness ==
    /\ CalledOk("all_codes_stats")
    /\ \E k \in 1..Len(out.val.rows) :
          /\ out.val.rows[k].min_non_zero_wartosc = NaN
          /\ PosVals(df, out.val.rows[k].resource_code) = {}

(***************************************************************************)
(* C13: zero_streaks_hours fails when the id has no records or no row with *)
(* a valid timestamp and value, and succeeds otherwise; for a series       *)
(* without an exactly-zero value it returns an empty table with the        *)
(* columns streak_id, start_ts, end_ts, intervals, hours, and the          *)
(* aggregators report for such a resource zero_streak_count 0,             *)
(* longest_zero_streak_h 0 and an empty zero_streak_hours list.            *)
(***************************************************************************)
C13_NoZeroRowIsNotAnError ==
    /\ op = "zero_streaks_hours" =>
          IF RowsOf(df, arg) = {}
          THEN out = Err("No records found for resource_code", arg)
          ELSE IF ValidRows(df, arg) = {}
          THEN out = Err("No valid timestamp/wartosc rows for", arg)
          ELSE /\ out.ok
               /\ ValidZeroRows(df, arg) = {} =>
                      /\ out.val = <<>>
                      /\ streaks_columns(series_of(df, arg))
                            = {"streak_id", "start_ts", "end_ts", "intervals", "hours"}
    /\ \A k \in 1..Len(StatRows) :
          ValidZeroRows(df, StatRows[k].resource_code) = {} =>
              /\ StatRows[k].zero_streak_count = 0
              /\ StatRows[k].longest_zero_streak_h = 0
              /\ StatRows[k].zero_streak_hours = <<>>

\* an aggregate row of a resource that has valid rows and no zero among
\* them, some of its values being negative
C13_Witness ==
    /\ CalledOk("all_codes_stats")
    /\ \E k \in 1..Len(StatRows) :
          /\ ValidZeroRows(df, StatRows[k].resource_code) = {}
          /\ \E i \in ValidRows(df, StatRows[k].resource_code) : df.rows[i].wartosc.v < 0
          /\ StatRows[k].zero_streak_count = 0

(***************************************************************************)
(* C14: the dominant step of a series is the most frequent of the strictly *)
(* positive deltas between consecutive rows of the sorted series (the      *)
(* smallest of them when several are equally frequent), and 0.25 h when    *)
(* no delta is positive; the hours of every streak are its interval count  *)
(* times that step, its start_ts is the earliest and its end_ts the latest *)
(* timestamp of its rows.                                                  *)
(***************************************************************************)
PositiveDeltaRows(rows) == {i \in 2..Len(rows) : Delta(rows, i) > 0}
Frequency(rows, d) == Cardinality({i \in PositiveDeltaRows(rows) : Delta(rows, i) = d})
DominantStep(rows) ==
    IF PositiveDeltaRows(rows) = {} THEN QuarterHour
    ELSE LET ds == {Delta(rows, i) : i \in PositiveDeltaRows(rows)}
             top == {d \in ds : \A e \in ds : Frequency(rows, e) <= Frequency(rows, d)}
         IN Least(top)

C14_DominantStepAndHours ==
    CalledOk("zero_streaks_hours") =>
        LET rows == series_of(df, arg)
            Z == ZeroPositions(rows)
            S == out.val
            before(k) == SumSeq(SubSeq(Intervals(S), 1, k - 1))
            stamps(k) == {rows[Z[j]].timestamp.v :
                            j \in (before(k) + 1)..(before(k) + S[k].intervals)}
        IN \A k \in 1..Len(S) :
              /\ S[k].hours = S[k].intervals * DominantStep(rows)
              /\ S[k].start_ts = Least(stamps(k))
              /\ S[k].end_ts = Greatest(stamps(k))

\* a series whose most frequent positive delta is not its smallest one,
\* with a streak of several rows
C14_Witness ==
    /\ CalledOk("zero_streaks_hours")
    /\ LET rows == series_of(df, arg)
       IN /\ DominantStep(rows) = 201
          /\ \E i \in PositiveDeltaRows(rows) : Delta(rows, i) = 200
          /\ \E k \in 1..Len(out.val) :
                out.val[k].intervals >= 2 /\ out.val[k].hours = out.val[k].intervals * 201

(***************************************************************************)
(* C15: get_percentile_base_codes returns, in strictly ascending order     *)
(* (hence without duplicates), exactly the distinct non-missing            *)
(* resource_code values that start with none of ZRN, PZR, JW7, WLC, ZGR,   *)
(* SNA, ZWA: a subset of the distinct ids that never holds an id starting  *)
(* with ZRN.                                                               *)
(***************************************************************************)
DistinctCodes(t) == {t.rows[i].resource_code : i \in 1..Len(t.rows)} \ {NoCode}
HasExcludedPrefix(c) ==
    /\ Len(c) >= 3
    /\ SubSeq(c, 1, 3) \in { <<"Z", "R", "N">>, <<"P", "Z", "R">>, <<"J", "W", "7">>,
                             <<"W", "L", "C">>, <<"Z", "G", "R">>, <<"S", "N", "A">>,
                             <<"Z", "W", "A">> }
Eligible(t) == {c \in DistinctCodes(t) : ~HasExcludedPrefix(c)}

C15_PercentileBaseCodes ==
    op = "get_percentile_base_codes" =>
        /\ out.ok
        /\ \A i \in 1..(Len(out.val) - 1) : StrLess(out.val[i], out.val[i + 1])
        /\ Range(out.val) = Eligible(df)
        /\ Range(out.val) \subseteq DistinctCodes(df)
        /\ \A i \in 1..Len(out.val) : SubSeq(out.val[i], 1, 3) # <<"Z", "R", "N">>

\* a table with a ZRN id, a row without an id and two eligible ids
C15_Witness ==
    /\ op = "get_percentile_base_codes"
    /\ ZRN1 \in DistinctCodes(df)
    /\ \E i \in 1..Len(df.rows) : df.rows[i].resource_code = NoCode
    /\ out.ok /\ Len(out.val) >= 1

(***************************************************************************)
(* C16: in the table of all_codes_stats percentile_base_included is true   *)
(* exactly for the ids get_percentile_base_codes returns; p1, p2, p3, p5   *)
(* are all missing for an id that is not included, all present for an      *)
(* included id with a non-zero value, and in every row either all present  *)
(* or all missing.                                                         *)
(***************************************************************************)
PCells(r) == {r.p1_non_zero_wartosc, r.p2_non_zero_wartosc,
              r.p3_non_zero_wartosc, r.p5_non_zero_wartosc}

C16_PercentileBaseIncluded ==
    CalledOk("all_codes_stats") =>
        \A k \in 1..Len(out.val.rows) :
            LET r == out.val.rows[k]
            IN /\ r.percentile_base_included
                    <=> (r.resource_code \in Range(get_percentile_base_codes(df).val))
               /\ r.percentile_base_included <=> (r.resource_code \in Eligible(df))
               /\ ~r.percentile_base_included => PCells(r) = {NaN}
               /\ (r.percentile_base_included /\ NonZeroVals(df, r.resource_code) # {})
                    => \A c \in PCells(r) : c.k = "num"
               /\ \/ PCells(r) = {NaN}
                  \/ \A c \in PCells(r) : c.k = "num"

\* a table with an excluded id that has a non-zero value and an included id
\* that has one
C16_Witness ==
    /\ CalledOk("all_codes_stats")
    /\ \E k \in 1..Len(out.val.rows) :
          /\ ~out.val.rows[k].percentile_base_included
          /\ NonZeroVals(df, out.val.rows[k].resource_code) # {}
          /\ out.val.rows[k].p5_non_zero_wartosc = NaN
    /\ \E k \in 1..Len(out.val.rows) :
          /\ out.val.rows[k].percentile_base_included
          /\ out.val.rows[k].p5_non_zero_wartosc.k = "num"

(***************************************************************************)
(* C17: the family of a resource id is its maximal leading run of letters, *)
(* and UNKNOWN when the id does not start with a letter: 'BEL 2-02' is in  *)
(* family BEL and '123XYZ' in family UNKNOWN.  The statement that two ids  *)
(* share a family exactly when their leading letter runs are equal is      *)
(* C17_FamiliesAreLetterRuns; in the code an id without a leading letter   *)
(* also shares the family of an id whose leading run is the word UNKNOWN   *)
(* (C17_FamilyOfCode).                                                     *)
(***************************************************************************)
Letters == Range(Upper) \cup Range(Lower)
LetterRun(c) ==
    LET n == CHOOSE m \in 0..Len(c) :
                /\ \A i \in 1..m : c[i] \in Letters
                /\ m < Len(c) => c[m + 1] \notin Letters
    IN SubSeq(c, 1, n)
FamilyName(c) ==
    IF LetterRun(c) = <<>> THEN <<"U", "N", "K", "N", "O", "W", "N">> ELSE LetterRun(c)
StatCodes == {stats.rows[i].resource_code : i \in 1..Len(stats.rows)}
FamilyRows(f) == {k \in 1..Len(out.val) : out.val[k].code_family = f}

C17_FamiliesAreLetterRuns ==
    CalledOk("p5_subtotals_by_family") =>
        /\ \A c \in StatCodes : FamilyRows(FamilyName(c)) # {}
        /\ \A a, b \in StatCodes :
              (code_family(a) = code_family(b)) <=> (LetterRun(a) = LetterRun(b))

C17_FamilyOfCode ==
    CalledOk("p5_subtotals_by_family") =>
        /\ {out.val[k].code_family : k \in 1..Len(out.val)}
                = {FamilyName(c) : c \in StatCodes}
        /\ \A c \in StatCodes : code_family(c) = FamilyName(c)
        /\ BEL202 \in StatCodes => FamilyRows(<<"B", "E", "L">>) # {}
        /\ N123XYZ \in StatCodes => FamilyRows(<<"U", "N", "K", "N", "O", "W", "N">>) # {}
        /\ \A a, b \in StatCodes :
              (code_family(a) = code_family(b))
                  <=> \/ LetterRun(a) = LetterRun(b)
                      \/ {LetterRun(a), LetterRun(b)}
                            = {<<>>, <<"U", "N", "K", "N", "O", "W", "N">>}

\* the subtotals of a table that holds 'BEL 2-02', '123XYZ' and an id whose
\* leading letters are UNKNOWN: two families
C17_Witness ==
    /\ CalledOk("p5_subtotals_by_family")
    /\ StatCodes = {BEL202, N123XYZ, UNKNOWN7}
    /\ Len(out.val) = 2

(***************************************************************************)
(* C18: p5_subtotals_by_family returns one row per distinct family, in     *)
(* strictly ascending family order; the resource_code_count values add up  *)
(* to the number of rows of the statistics table;                          *)
(* percentile_base_code_count is the number of included members and never  *)
(* exceeds resource_code_count; every pK subtotal is the sum of the        *)
(* non-missing pK values of the members (0 for a family of excluded        *)
(* members), so that the subtotals of a column add up to its grand total.  *)
(***************************************************************************)
RECURSIVE CellSum(_, _, _)
CellSum(T, I, col) ==
    IF I = {} THEN 0
    ELSE LET i == CHOOSE j \in I : TRUE
         IN (IF T[i][col].k = "num" THEN T[i][col].v ELSE 0) + CellSum(T, I \ {i}, col)

Members(T, f) == {i \in 1..Len(T) : FamilyName(T[i].resource_code) = f}

Subtotal(r, col) ==
    IF col = "p1_non_zero_wartosc" THEN r.p1_non_zero_wartosc_subtotal
    ELSE IF col = "p2_non_zero_wartosc" THEN r.p2_non_zero_wartosc_subtotal
    ELSE IF col = "p3_non_zero_wartosc" THEN r.p3_non_zero_wartosc_subtotal
    ELSE r.p5_non_zero_wartosc_subtotal

C18_FamilySubtotals ==
    CalledOk("p5_subtotals_by_family") =>
        LET R == out.val
            T == stats.rows
            PK == {"p1_non_zero_wartosc", "p2_non_zero_wartosc",
                   "p3_non_zero_wartosc", "p5_non_zero_wartosc"}
        IN /\ \A k \in 1..(Len(R) - 1) : StrLess(R[k].code_family, R[k + 1].code_family)
           /\ {R[k].code_family : k \in 1..Len(R)}
                = {FamilyName(T[i].resource_code) : i \in 1..Len(T)}
           /\ SumSeq([k \in 1..Len(R) |-> R[k].resource_code_count]) = Len(T)
           /\ \A k \in 1..Len(R) :
                LET M == Members(T, R[k].code_family)
                IN /\ R[k].resource_code_count = Cardinality(M)
                   /\ R[k].percentile_base_code_count
                        = Cardinality({i \in M : T[i].percentile_base_included})
                   /\ R[k].percentile_base_code_count <= R[k].resource_code_count
                   /\ \A col \in PK : Subtotal(R[k], col) = CellSum(T, M, col)
                   /\ (\A i \in M : ~T[i].percentile_base_included)
                        => \A col \in PK : Subtotal(R[k], col) = 0
           /\ \A col \in PK :
                SumSeq([k \in 1..Len(R) |-> Subtotal(R[k], col)])
                    = CellSum(T, 1..Len(T), col)

\* a family of two members with different percentiles next to a family of
\* excluded members
C18_Witness ==
    /\ CalledOk("p5_subtotals_by_family")
    /\ \E k \in 1..Len(out.val) :
          /\ out.val[k].resource_code_count = 2
          /\ out.val[k].p5_non_zero_wartosc_subtotal = 800
    /\ \E k \in 1..Len(out.val) :
          /\ out.val[k].percentile_base_code_count = 0
          /\ out.val[k].p5_non_zero_wartosc_subtotal = 0

(***************************************************************************)
(* C19: when they succeed, bel_codes_stats returns one row per distinct    *)
(* non-missing resource_code that starts with BEL and all_codes_stats one  *)
(* row per distinct non-missing resource_code, in strictly ascending order *)
(* of resource_code; in every row zero_streak_count is the number of       *)
(* streaks zero_streaks_hours returns for the id and the length of the     *)
(* zero_streak_hours list.                                                 *)
(***************************************************************************)
C19_OneRowPerCode ==
    /\ CalledOk("bel_codes_stats") =>
          {StatRows[k].resource_code : k \in 1..Len(StatRows)}
              = {c \in DistinctCodes(df) : SubSeq(c, 1, 3) = <<"B", "E", "L">>}
    /\ CalledOk("all_codes_stats") =>
          {StatRows[k].resource_code : k \in 1..Len(StatRows)} = DistinctCodes(df)
    /\ \A k \in 1..(Len(StatRows) - 1) :
          StrLess(StatRows[k].resource_code, StatRows[k + 1].resource_code)
    /\ \A k \in 1..Len(StatRows) :
          /\ zero_streaks_hours(df, StatRows[k].resource_code).ok
          /\ StatRows[k].zero_streak_count
                = Len(zero_streaks_hours(df, StatRows[k].resource_code).val)
          /\ StatRows[k].zero_streak_count = Len(StatRows[k].zero_streak_hours)
          /\ (StatRows[k].zero_streak_count > 0)
                <=> (ValidZeroRows(df, StatRows[k].resource_code) # {})

\* two rows, one of them with a zero streak, from a table that also holds
\* a row without a resource_code
C19_Witness ==
    /\ CalledOk("all_codes_stats")
    /\ Len(StatRows) = 2
    /\ \E i \in 1..Len(df.rows) : df.rows[i].resource_code = NoCode
    /\ \E k \in 1..Len(StatRows) : StatRows[k].zero_streak_count = 1

(***************************************************************************)
(* C20: the errors for a missing column.  The statement that every         *)
(* operation on the readings table reports a missing column it requires    *)
(* before any other outcome is C20_MissingColumnFirst.  What the code does *)
(* is C20_MissingColumnErrors: a missing resource_code is reported first   *)
(* by every operation, and min_positive_per_resource reports a missing     *)
(* wartosc with it; resource_wartosc_stats and zero_streaks_hours report   *)
(* an id without records before they look at the other columns, then       *)
(* zero_streaks_hours reports a missing timestamp column, and a missing    *)
(* wartosc surfaces as the KeyError of the column access; the aggregators  *)
(* meet that KeyError when they have an id to process.                     *)
(***************************************************************************)
TableOps == {"get_percentile_base_codes", "min_positive_per_resource",
             "records_for_resource", "resource_wartosc_stats", "zero_streaks_hours",
             "bel_codes_stats", "all_codes_stats"}
NamesColumn(o, col) ==
    /\ ~o.ok
    /\ \/ o.err = "Missing required column: resource_code" /\ col = "resource_code"
       \/ o.err = "Missing required columns" /\ col \in o.id
       \/ o.err = "KeyError: wartosc" /\ col = "wartosc"
       \/ o.err = "Missing timestamp column: expected dtime_utc or dtime"
            /\ col \in {"dtime_utc", "dtime"}
NoTimestampColumn(t) == "dtime_utc" \notin t.cols /\ "dtime" \notin t.cols

C20_MissingColumnFirst ==
    /\ (op \in TableOps /\ "resource_code" \notin df.cols)
            => NamesColumn(out, "resource_code")
    /\ (op \in {"min_positive_per_resource", "resource_wartosc_stats", "bel_codes_stats",
                "all_codes_stats"} /\ "wartosc" \notin df.cols)
            => (NamesColumn(out, "wartosc") \/ NamesColumn(out, "resource_code"))
    /\ (op = "zero_streaks_hours" /\ "resource_code" \in df.cols /\ NoTimestampColumn(df))
            => NamesColumn(out, "dtime")

C20_MissingColumnErrors ==
    /\ (op \in TableOps /\ "resource_code" \notin df.cols) =>
          IF op = "min_positive_per_resource"
          THEN out = Err("Missing required columns", {"resource_code", "wartosc"} \ df.cols)
          ELSE out = Err("Missing required column: resource_code", <<>>)
    /\ (op \in TableOps /\ "resource_code" \in df.cols) =>
          /\ (op = "min_positive_per_resource" /\ "wartosc" \notin df.cols)
                => out = Err("Missing required columns", {"wartosc"})
          /\ op \in {"get_percentile_base_codes", "records_for_resource"} => out.ok
          /\ op = "resource_wartosc_stats" =>
                IF RowsOf(df, arg) = {}
                THEN out = Err("No records found for resource_code", arg)
                ELSE ("wartosc" \notin df.cols) <=> (out = Err("KeyError: wartosc", <<>>))
          /\ op = "zero_streaks_hours" =>
                IF RowsOf(df, arg) = {}
                THEN out = Err("No records found for resource_code", arg)
                ELSE IF NoTimestampColumn(df)
                THEN out = Err("Missing timestamp column: expected dtime_utc or dtime", <<>>)
                ELSE IF "wartosc" \notin df.cols
                THEN out = Err("KeyError: wartosc", <<>>)
                ELSE out.ok
          /\ (op = "bel_codes_stats" /\ "wartosc" \notin df.cols /\ BelCodes(df) # {})
                => out = Err("KeyError: wartosc", <<>>)
          /\ (op = "all_codes_stats" /\ "wartosc" \notin df.cols /\ UniqueCodes(df) # {})
                => out = Err("KeyError: wartosc", <<>>)

\* zero_streaks_hours, called for an id without records on a table that
\* has no timestamp column, reports the id
C20_Witness ==
    /\ op = "zero_streaks_hours"
    /\ "resource_code" \in df.cols
    /\ NoTimestampColumn(df)
    /\ df.rows # <<>>
    /\ out = Err("No records found for resource_code", arg)

(***************************************************************************)
(* C30: when several positive deltas are equally frequent (and none is     *)
(* more frequent), zero_streaks_hours takes the smallest of them as the    *)
(* dominant step, whatever the order in which they occur: the hours of     *)
(* every streak are its intervals times that delta, and a zero row whose   *)
(* positive delta is off that delta by more than the tolerance starts a    *)
(* streak.  [t0, t0+step, t0+10*step] and [t0, t0+9*step, t0+10*step],     *)
(* all zero, both get step: streaks of 2 and 1, and of 1 and 2 intervals.  *)
(***************************************************************************)
MostFrequentSteps(rows) ==
    LET ds == {Delta(rows, i) : i \in PositiveDeltaRows(rows)}
    IN {d \in ds : \A e \in ds : Frequency(rows, e) <= Frequency(rows, d)}

\* The table [t0: 0, t0 + 9 * step: 0, t0 + 10 * step: 0] with step = 200 ticks
TieExampleLate == Loaded(SeriesCells(<<1800, 200>>, <<0, 0, 0>>))

C30_TieTakesSmallestStep ==
    CalledOk("zero_streaks_hours") =>
        LET rows == series_of(df, arg)
            T == MostFrequentSteps(rows)
            S == out.val
            step == Least(T)
            off(i) == Abs(Delta(rows, i) - step)
        IN /\ Cardinality(T) >= 2 =>
                /\ \A k \in 1..Len(S) : S[k].hours = S[k].intervals * step
                /\ \A i \in PositiveDeltaRows(rows) :
                      (rows[i].wartosc.v = 0 /\ off(i) > EPS /\ off(i) > step \div 100) =>
                          \E k \in 1..Len(S) : S[k].start_ts = rows[i].timestamp.v
           /\ (df = GapExample /\ arg = X1) =>
                 [k \in 1..Len(S) |-> S[k].hours] = <<400, 200>>
           /\ (df = TieExampleLate /\ arg = X1) =>
                 /\ Intervals(S) = <<1, 2>>
                 /\ [k \in 1..Len(S) |-> S[k].hours] = <<200, 400>>

\* the second example: the larger of the two equally frequent deltas first
C30_Witness ==
    /\ CalledOk("zero_streaks_hours")
    /\ df = TieExampleLate
    /\ arg = X1
    /\ Cardinality(MostFrequentSteps(series_of(df, arg))) = 2
    /\ Len(out.val) = 2

(***************************************************************************)
(* C29: when no resource id qualifies, the aggregators return an empty     *)
(* table instead of raising: bel_codes_stats for a table (with a           *)
(* resource_code column) that holds no id starting with BEL,               *)
(* all_codes_stats for a table that holds no non-missing id.               *)
(***************************************************************************)
C29_EmptyTableWhenNoneQualifies ==
    /\ (op = "bel_codes_stats" /\ "resource_code" \in df.cols /\ BelCodes(df) = {}) =>
            out.ok /\ out.val.rows = <<>>
    /\ (op = "all_codes_stats" /\ "resource_code" \in df.cols /\ UniqueCodes(df) = {}) =>
            out.ok /\ out.val.rows = <<>>

\* bel_codes_stats called on a table with rows, none of a BEL id: the frame
\* built from the empty list of rows has no resource_code column to sort by
C29_Witness ==
    /\ op = "bel_codes_stats"
    /\ df.rows # <<>>
    /\ BelCodes(df) = {}
    /\ ~out.ok
    /\ out.err = "KeyError: resource_code"

(***************************************************************************)
(* The PSE export scripts (pse_gen-jw.py, pse_export_cli.py, pse_gui.py):  *)
(* requests, the API server, fetch_json.  Waits are whole seconds.         *)
(***************************************************************************)
MaxRetries == 3      \* the largest max_retries a call of fetch_json is given
MaxFaults == 3       \* the most answers the server has planned

DEFAULT_MAX_RETRIES == 3
DEFAULT_RETRY_BACKOFF_SECONDS == 1

\* A URL: its path and its query string (None when it has none)
Url(path) == [k |-> "url", path |-> path, query |-> None]

\* An empty dict of query parameters
EmptyDict == [k |-> "dict"]

\* BASE_URL/endpoint
base_url(endpoint) == Url(endpoint)

\* if params: url = f"{url}?{encode_params(params)}"
request_url(url, params) ==
    IF params # None /\ params # EmptyDict THEN [url EXCEPT !.query = params] ELSE url

\* What the server answers the n-th request it receives with: the planned
\* failure, or the JSON document of the URL
OK == [k |-> "ok"]
HTTPError(code) == [k |-> "HTTPError", code |-> code]
URLError == [k |-> "URLError"]
Faults == {OK, HTTPError(404), HTTPError(500), HTTPError(503), URLError}

\* A JSON document: 'value' may be absent, 'nextLink' may be absent (None)
Page(has_value, value, nextLink) ==
    [k |-> "dict", has_value |-> has_value, value |-> value, nextLink |-> nextLink]

\* Times of the export window are counted in half hours from midnight of
\* day 0; format_dt renders one as "%Y-%m-%d %H:%M:%S", here the day, the
\* hour and the minute (seconds are always 0)
PerHour == 2
format_dt(t) == <<t \div (24 * PerHour), (t % (24 * PerHour)) \div PerHour,
                  (t % PerHour) * (60 \div PerHour)>>

\* Comparison of two rendered times as strings
DtLess(a, b) ==
    \/ a[1] < b[1]
    \/ a[1] = b[1] /\ a[2] < b[2]
    \/ a[1] = b[1] /\ a[2] = b[2] /\ a[3] < b[3]

\* f"dtime_utc ge '{start_str}' and dtime_utc lt '{end_str}'"
build_filter(start_dt, end_dt_exclusive) ==
    [ge |-> format_dt(start_dt), lt |-> format_dt(end_dt_exclusive)]

\* Whether a record's dtime_utc satisfies a $filter
Satisfies(dtime_utc, filter) == ~DtLess(dtime_utc, filter.ge) /\ DtLess(dtime_utc, filter.lt)

\* The API over its data (ordered by dtime_utc): the records that satisfy
\* the $filter, $first at a time, with a nextLink while more remain
data_page(srv, query) ==
    LET matching == SelectSeq(srv.rows, LAMBDA r : Satisfies(r.dtime_utc, query.filter))
        skip == IF "skip" \in DOMAIN query THEN query.skip ELSE 0
        upto == IF skip + query.first < Len(matching) THEN skip + query.first
                ELSE Len(matching)
        more == [x \in DOMAIN query \cup {"skip"} |-> IF x = "skip" THEN upto ELSE query[x]]
    IN [k |-> "dict", has_value |-> TRUE, value |-> SubSeq(matching, skip + 1, upto),
        nextLink |-> IF upto < Len(matching)
                     THEN [k |-> "url", path |-> "gen-jw", query |-> more]
                     ELSE None]

\* The document a server holds under a URL.  A server of linked pages: the
\* endpoint's page whatever the query, a linked page by its path
document(srv, url) ==
    IF srv.kind = "pages" THEN srv.pages[url.path] ELSE data_page(srv, url.query)

\* urllib.request.urlopen(request) followed by json.load(response)
urlopen(srv, url) ==
    LET n == Len(srv.requests) + 1
        planned == IF n <= Len(srv.faults) THEN srv.faults[n] ELSE OK
    IN [resp |-> IF planned = OK THEN [k |-> "json", body |-> document(srv, url)]
                 ELSE planned,
        server |-> [srv EXCEPT !.requests = Append(@, url)]]

\* The exception object of a failed request
Raise(resp) ==
    IF resp.k = "HTTPError" THEN Err("HTTPError", <<resp.code>>) ELSE Err("URLError", <<>>)

\* What the name `time` is bound to where fetch_json runs: `import time`
\* is followed by `from datetime import ..., time, ...`, which rebinds it
time_name == "datetime.time"

\* time.sleep(wait): the class datetime.time has no attribute sleep
time_sleep(sl, wait) ==
    IF time_name = "time" THEN [out |-> Ok(None), slept |-> Append(sl, wait)]
    ELSE [out |-> Err("AttributeError", <<>>), slept |-> sl]

\* for attempt in range(max_retries + 1): ... of fetch_json, from `attempt`
RECURSIVE fetch_json_from(_, _, _, _, _, _)
fetch_json_from(attempt, srv, sl, url, max_retries, backoff_seconds) ==
    IF attempt > max_retries THEN [out |-> Ok(None), server |-> srv, slept |-> sl]
    ELSE LET r == urlopen(srv, url)
             wait == backoff_seconds * (2 ^ attempt)
             s == time_sleep(sl, wait)
             retry == IF ~s.out.ok THEN [out |-> s.out, server |-> r.server, slept |-> s.slept]
                      ELSE fetch_json_from(attempt + 1, r.server, s.slept, url,
                                           max_retries, backoff_seconds)
             raise == [out |-> Raise(r.resp), server |-> r.server, slept |-> sl]
         IN IF r.resp.k = "json"
            THEN [out |-> Ok(r.resp.body), server |-> r.server, slept |-> sl]
            ELSE IF r.resp.k = "HTTPError"
            THEN IF r.resp.code >= 500 /\ attempt < max_retries THEN retry ELSE raise
            ELSE IF attempt < max_retries THEN retry ELSE raise

\* fetch_json of pse_gen-jw.py
fetch_json(srv, sl, url, params, max_retries, backoff_seconds) ==
    fetch_json_from(0, srv, sl, request_url(url, params), max_retries, backoff_seconds)

\* fetch_json of pse_export_cli.py and pse_gui.py: one request, no retry
fetch_json_once(srv, sl, url, params) ==
    LET r == urlopen(srv, request_url(url, params))
    IN [out |-> IF r.resp.k = "json" THEN Ok(r.resp.body) ELSE Raise(r.resp),
        server |-> r.server, slept |-> sl]

\* Query parameters of a request
SomeParams == [k |-> "dict", first |-> 2]

\* A server with one document, and up to MaxFaults planned answers
OnePage == Page(TRUE, <<"r1">>, None)
Backoffs == {DEFAULT_RETRY_BACKOFF_SECONDS, 2}

InitFetchJson ==
    /\ df = NoTable
    /\ stats = NoTable
    /\ op = "none"
    /\ arg = <<>>
    /\ out = Ok(<<>>)
    /\ slept = <<>>
    /\ fetch = NotFetching
    /\ builder = None
    /\ disk = NoDisk
    /\ \E n \in 0..MaxFaults : \E faults \in [1..n -> Faults] :
          server = [kind |-> "pages", pages |-> [p \in {"gen-jw"} |-> OnePage],
                    faults |-> faults, requests |-> <<>>]

\* data = fetch_json(url, params, timeout_seconds, max_retries, backoff_seconds)
FetchJson ==
    \E max_retries \in 0..MaxRetries, backoff_seconds \in Backoffs,
       params \in {None, EmptyDict, SomeParams} :
        /\ op = "none"
        /\ op' = "fetch_json"
        /\ arg' = [max_retries |-> max_retries, backoff_seconds |-> backoff_seconds,
                   params |-> params]
        /\ LET c == fetch_json(server, slept, base_url("gen-jw"), params,
                               max_retries, backoff_seconds)
           IN out' = c.out /\ server' = c.server /\ slept' = c.slept
        /\ UNCHANGED <<df, stats, fetch, builder, disk>>

NextFetchJson == FetchJson

SpecFetchJson == InitFetchJson /\ [][NextFetchJson]_vars

(***************************************************************************)
(* C21: fetch_json retries a request that failed with an HTTP status >= 500 *)
(* or a network error: when the first k <= max_retries answers are such    *)
(* failures and the next one is a success, it has slept                    *)
(* backoff_seconds * 2^(i-1) before retry i = 1..k, has sent k + 1         *)
(* requests, and returns the JSON body of the successful answer; one 503   *)
(* followed by a success yields the successful body.                       *)
(***************************************************************************)
Answer(n) == IF n <= Len(server.faults) THEN server.faults[n] ELSE OK
IsRetryable(a) == a = URLError \/ (a.k = "HTTPError" /\ a.code >= 500)

\* The number of retryable failures before the first other answer
LeadingFailures ==
    Cardinality({n \in 1..Len(server.faults) : \A m \in 1..n : IsRetryable(Answer(m))})

C21_RetriesUntilSuccess ==
    (op = "fetch_json" /\ LeadingFailures <= arg.max_retries
                       /\ Answer(LeadingFailures + 1) = OK) =>
        /\ out = Ok(OnePage)
        /\ Len(server.requests) = LeadingFailures + 1
        /\ slept = [i \in 1..LeadingFailures |-> arg.backoff_seconds * (2 ^ (i - 1))]

\* one 503 then a success, with the default number of retries: the call has
\* raised AttributeError after the first request
C21_Witness ==
    /\ op = "fetch_json"
    /\ server.faults = <<HTTPError(503)>>
    /\ arg.max_retries = DEFAULT_MAX_RETRIES
    /\ out = Err("AttributeError", <<>>)
    /\ Len(server.requests) = 1
    /\ slept = <<>>

(***************************************************************************)
(* C22: fetch_json is bounded: it never sends more than max_retries + 1    *)
(* requests; an HTTP error below 500 is raised at its first occurrence     *)
(* with no wait and no further request; when the call fails, the error     *)
(* raised is the error of the last request sent; a call that returns       *)
(* returns a JSON body.                                                    *)
(***************************************************************************)
C22_BoundedAttempts ==
    op = "fetch_json" =>
        /\ Len(server.requests) <= arg.max_retries + 1
        /\ Len(server.requests) >= 1
        /\ (Answer(1).k = "HTTPError" /\ Answer(1).code < 500) =>
                /\ out = Raise(Answer(1))
                /\ slept = <<>>
                /\ Len(server.requests) = 1
        /\ ~out.ok => out = Raise(Answer(Len(server.requests)))
        /\ out.ok => out.val = OnePage

\* a network error at the only request of a call that allows retries
C22_Witness ==
    /\ op = "fetch_json"
    /\ arg.max_retries >= 1
    /\ Answer(1) = URLError
    /\ out = Err("AttributeError", <<>>)
    /\ Len(server.requests) = 1

(***************************************************************************)
(* fetch_all: the pagination loop, one page per step                       *)
(***************************************************************************)
MaxPages == 4        \* the most pages one call of fetch_all is followed for

Clients == {"pse_gen-jw", "pse_export_cli", "pse_gui"}

\* fetch_json(next_url, next_params, timeout_seconds) as the script of the
\* client defines it
fetch_json_of(client, srv, sl, url, params) ==
    IF client = "pse_gen-jw"
    THEN fetch_json(srv, sl, url, params, DEFAULT_MAX_RETRIES, DEFAULT_RETRY_BACKOFF_SECONDS)
    ELSE fetch_json_once(srv, sl, url, params)

\* url, page, records, next_url, next_params before the loop
fetch_all_begin(client, endpoint, params) ==
    [pc |-> "loop", client |-> client, endpoint |-> endpoint,
     next_url |-> base_url(endpoint), next_params |-> params,
     records |-> <<>>, page |-> 0]

\* A variant that sends the query parameters with every request
fetch_all_page_with_params(f, srv, sl) ==
    LET c == fetch_json_of(f.client, srv, sl, f.next_url, f.next_params)
        data == c.out.val
        values == IF data.has_value THEN data.value ELSE <<>>
    IN IF ~c.out.ok
       THEN [fetch |-> [f EXCEPT !.pc = "raised", !.page = @ + 1],
             out |-> c.out, server |-> c.server, slept |-> c.slept]
       ELSE [fetch |-> [f EXCEPT !.page = @ + 1,
                                 !.records = @ \o values,
                                 !.next_url = data.nextLink],
             out |-> Ok(<<>>), server |-> c.server, slept |-> c.slept]

\* The body of `while next_url:` once fetch_json has ended as `c`
fetch_all_got(f, c) ==
    LET data == c.out.val
        values == IF data.has_value THEN data.value ELSE <<>>
    IN IF ~c.out.ok
       THEN [fetch |-> [f EXCEPT !.pc = "raised", !.page = @ + 1],
             out |-> c.out, server |-> c.server, slept |-> c.slept]
       ELSE IF data = None
       THEN [fetch |-> [f EXCEPT !.pc = "raised", !.page = @ + 1],
             out |-> Err("AttributeError", <<>>), server |-> c.server, slept |-> c.slept]
       ELSE [fetch |-> [f EXCEPT !.page = @ + 1,
                                 !.records = @ \o values,
                                 !.next_url = data.nextLink,
                                 !.next_params = None],
             out |-> Ok(<<>>), server |-> c.server, slept |-> c.slept]

\* One pass of the body of `while next_url:`
fetch_all_page(f, srv, sl) ==
    fetch_all_got(f, fetch_json_of(f.client, srv, sl, f.next_url, f.next_params))

\* Servers of up to three linked pages: each page with or without 'value',
\* linked to any page (itself included) or to none
Paths == {"gen-jw", "next1", "next2"}
ValueAt(path) ==
    IF path = "gen-jw" THEN <<"a1", "a2">>
    ELSE IF path = "next1" THEN <<"b1">> ELSE <<"c1", "c2">>
Links == {None, Url("next1"), Url("next2")}
PagesAt(path) ==
    {Page(TRUE, ValueAt(path), l) : l \in Links} \cup {Page(FALSE, <<>>, l) : l \in Links}

\* The server fails at most once, at one of its first MaxFaults answers
FaultPlans ==
    {<<>>} \cup {[i \in 1..n |-> IF i = n THEN f ELSE OK] :
                    n \in 1..MaxFaults, f \in Faults \ {OK}}

InitFetchAll ==
    /\ df = NoTable
    /\ stats = NoTable
    /\ op = "none"
    /\ arg = <<>>
    /\ out = Ok(<<>>)
    /\ slept = <<>>
    /\ fetch = NotFetching
    /\ builder = None
    /\ disk = NoDisk
    /\ \E first \in PagesAt("gen-jw"), p1 \in PagesAt("next1"), p2 \in PagesAt("next2"),
          faults \in FaultPlans :
          server = [kind |-> "pages",
                    pages |-> [p \in Paths |-> IF p = "gen-jw" THEN first
                                               ELSE IF p = "next1" THEN p1 ELSE p2],
                    faults |-> faults, requests |-> <<>>]

\* records = fetch_all(endpoint, params, timeout_seconds): the call
FetchAllCall ==
    \E client \in Clients, params \in {EmptyDict, SomeParams} :
        /\ op = "none"
        /\ fetch.pc = "idle"
        /\ op' = "fetch_all"
        /\ arg' = [client |-> client, params |-> params]
        /\ fetch' = fetch_all_begin(client, "gen-jw", params)
        /\ UNCHANGED <<df, stats, out, server, slept, builder, disk>>

\* while next_url: one page
FetchAllPage ==
    /\ fetch.pc = "loop"
    /\ fetch.next_url # None
    /\ fetch.page < MaxPages
    /\ LET s == fetch_all_page(fetch, server, slept)
       IN fetch' = s.fetch /\ out' = s.out /\ server' = s.server /\ slept' = s.slept
    /\ UNCHANGED <<df, stats, op, arg, builder, disk>>

\* return records
FetchAllReturn ==
    /\ fetch.pc = "loop"
    /\ fetch.next_url = None
    /\ fetch' = [fetch EXCEPT !.pc = "returned"]
    /\ out' = Ok(fetch.records)
    /\ UNCHANGED <<df, stats, op, arg, server, slept, builder, disk>>

NextFetchAll ==
    \/ FetchAllCall
    \/ FetchAllPage
    \/ FetchAllReturn

\* A function that has been called runs on: the script is one thread
SpecFetchAll == InitFetchAll /\ [][NextFetchAll]_vars /\ WF_vars(NextFetchAll)

(***************************************************************************)
(* C23: fetch_all requests the pages one after another.  Query parameters  *)
(* go with the first request only; every later request is the nextLink of  *)
(* the response before it, unchanged.  It returns the concatenation, in    *)
(* page order, of the 'value' lists of the pages (a page without 'value'   *)
(* adds nothing) and stops after the first response without a nextLink;    *)
(* it raises, returning nothing, when a request fails; and when the chain  *)
(* of nextLink values is finite the call ends.                             *)
(***************************************************************************)
\* The paths of the chain of pages from the endpoint, as far as `fuel` goes
RECURSIVE ChainFrom(_, _)
ChainFrom(path, fuel) ==
    IF fuel = 0 THEN <<>>
    ELSE LET link == server.pages[path].nextLink
         IN <<path>> \o (IF link = None THEN <<>> ELSE ChainFrom(link.path, fuel - 1))
Chain == ChainFrom("gen-jw", Cardinality(Paths) + 1)
ChainIsFinite == Len(Chain) <= Cardinality(Paths)

RECURSIVE ValuesAlong(_)
ValuesAlong(paths) ==
    IF paths = <<>> THEN <<>>
    ELSE (IF server.pages[Head(paths)].has_value THEN server.pages[Head(paths)].value
          ELSE <<>>) \o ValuesAlong(Tail(paths))

FetchAllEnded == fetch.pc \in {"returned", "raised"}

C23_Pages ==
    fetch.pc # "idle" =>
        LET R == server.requests
        IN /\ \A n \in 1..Len(R) :
                IF n = 1
                THEN /\ R[1].path = "gen-jw"
                     /\ R[1].query = (IF arg.params = EmptyDict THEN None ELSE arg.params)
                ELSE R[n] = server.pages[R[n - 1].path].nextLink
           /\ fetch.pc = "returned" =>
                /\ ChainIsFinite
                /\ Len(R) = Len(Chain)
                /\ \A n \in 1..Len(R) : R[n].path = Chain[n] /\ Answer(n) = OK
                /\ out = Ok(ValuesAlong(Chain))
           /\ fetch.pc = "raised" =>
                /\ ~out.ok
                /\ Answer(Len(R)) # OK
           /\ (\E n \in 1..Len(R) : Answer(n) # OK) => fetch.pc = "raised"

C23_PaginatesInOrder ==
    /\ []C23_Pages
    /\ (fetch.pc = "loop" /\ ChainIsFinite) ~> FetchAllEnded

\* a call that has returned the records of three pages, one of them
\* without 'value'
C23_Witness ==
    /\ fetch.pc = "returned"
    /\ Len(server.requests) = 3
    /\ \E n \in 1..3 : ~server.pages[Chain[n]].has_value
    /\ Len(out.val) >= 3
    /\ arg.params = SomeParams

(***************************************************************************)
(* iter_time_chunks, fetch_all as one call, fetch_all_chunked              *)
(***************************************************************************)
MaxSpan == 6         \* the export window lies within MaxSpan half hours
MaxChunkHours == 2   \* the largest chunk_hours

Min(a, b) == IF a <= b THEN a ELSE b

\* A variant whose chunks all have the full length
RECURSIVE iter_time_chunks_full_from(_, _, _)
iter_time_chunks_full_from(current, end_dt_exclusive, step) ==
    IF current < end_dt_exclusive
    THEN <<[chunk_start |-> current, chunk_end |-> current + step]>>
            \o iter_time_chunks_full_from(current + step, end_dt_exclusive, step)
    ELSE <<>>

\* while current < end_dt_exclusive: ... yield current, chunk_end
RECURSIVE iter_time_chunks_from(_, _, _)
iter_time_chunks_from(current, end_dt_exclusive, step) ==
    IF current < end_dt_exclusive
    THEN LET chunk_end == Min(current + step, end_dt_exclusive)
         IN <<[chunk_start |-> current, chunk_end |-> chunk_end]>>
               \o iter_time_chunks_from(chunk_end, end_dt_exclusive, step)
    ELSE <<>>

\* list(iter_time_chunks(start_dt, end_dt_exclusive, chunk_hours))
iter_time_chunks(start_dt, end_dt_exclusive, chunk_hours) ==
    IF chunk_hours <= 0 THEN Err("ValueError: chunk_hours must be > 0", <<>>)
    ELSE Ok(iter_time_chunks_from(start_dt, end_dt_exclusive, chunk_hours * PerHour))

\* The loop of fetch_all run to its end (`fuel` passes at most)
RECURSIVE fetch_all_loop(_, _, _, _)
\* After a pass `s` of the loop: the exception leaves it, or the next pass
fetch_all_next(s, fuel) ==
    IF s.fetch.pc = "raised" THEN [out |-> s.out, server |-> s.server, slept |-> s.slept]
    ELSE fetch_all_loop(s.fetch, s.server, s.slept, fuel - 1)
fetch_all_loop(f, srv, sl, fuel) ==
    IF f.next_url = None THEN [out |-> Ok(f.records), server |-> srv, slept |-> sl]
    ELSE IF fuel = 0 THEN [out |-> Err("does not return", <<>>), server |-> srv, slept |-> sl]
    ELSE fetch_all_next(fetch_all_page(f, srv, sl), fuel)

\* fetch_all(endpoint, params, timeout_seconds) of pse_gen-jw.py; the data
\* server has at most Len(rows) + 1 pages for a query
fetch_all(srv, sl, endpoint, params) ==
    fetch_all_loop(fetch_all_begin("pse_gen-jw", endpoint, params), srv, sl,
                   Len(srv.rows) + 1)

\* {**base_params, "$filter": filter_expr}
with_filter(base_params, filter_expr) ==
    [x \in DOMAIN base_params \cup {"filter"} |->
        IF x = "filter" THEN filter_expr ELSE base_params[x]]

\* for chunk_start, chunk_end in iter_time_chunks(...): of fetch_all_chunked
RECURSIVE fetch_all_chunks(_, _, _, _, _, _)
\* all_records.extend(records) with the records `c` of a chunk, then the
\* chunks that are left
fetch_all_extend(c, chunks, records, endpoint, base_params) ==
    IF ~c.out.ok THEN c
    ELSE fetch_all_chunks(chunks, records \o c.out.val, c.server, c.slept, endpoint,
                          base_params)
fetch_all_chunks(chunks, records, srv, sl, endpoint, base_params) ==
    IF chunks = <<>> THEN [out |-> Ok(records), server |-> srv, slept |-> sl]
    ELSE fetch_all_extend(
             fetch_all(srv, sl, endpoint,
                       with_filter(base_params,
                                   build_filter(Head(chunks).chunk_start,
                                                Head(chunks).chunk_end))),
             Tail(chunks), records, endpoint, base_params)

fetch_all_chunked(srv, sl, endpoint, base_params, start_dt, end_dt_exclusive, chunk_hours) ==
    LET chunks == iter_time_chunks(start_dt, end_dt_exclusive, chunk_hours)
    IN IF ~chunks.ok THEN [out |-> chunks, server |-> srv, slept |-> sl]
       ELSE fetch_all_chunks(chunks.val, <<>>, srv, sl, endpoint, base_params)

\* base_params of run_export for a page size
base_params_of(page_size) ==
    [k |-> "dict", orderby |-> "dtime_utc asc", first |-> page_size,
     select |-> "GEN_JW_COLUMNS"]

\* The instants of the windows: MaxSpan half hours around midnight of day 1
FirstInstant == 24 * PerHour - 3
Instants == FirstInstant..(FirstInstant + MaxSpan)

\* The data of the API: one record at each of some instants (two of them
\* at midnight), in ascending order of dtime_utc
DataInstants == {FirstInstant + 1, FirstInstant + 2, FirstInstant + 3, FirstInstant + 5}
RecordsAt(t) ==
    IF t = 24 * PerHour
    THEN <<[dtime_utc |-> format_dt(t), resource_code |-> ZRN1],
           [dtime_utc |-> format_dt(t), resource_code |-> BEL1]>>
    ELSE <<[dtime_utc |-> format_dt(t), resource_code |-> BEL1]>>
RECURSIVE DataOf(_, _)
DataOf(present, t) ==
    IF t > FirstInstant + MaxSpan THEN <<>>
    ELSE (IF t \in present THEN RecordsAt(t) ELSE <<>>) \o DataOf(present, t + 1)

\* The server fails at most once, at its first or second answer
ChunkFaultPlans == {<<>>, <<HTTPError(404)>>, <<OK, HTTPError(503)>>}

InitChunks ==
    /\ df = NoTable
    /\ stats = NoTable
    /\ op = "none"
    /\ arg = <<>>
    /\ out = Ok(<<>>)
    /\ slept = <<>>
    /\ fetch = NotFetching
    /\ builder = None
    /\ disk = NoDisk
    /\ \E present \in SUBSET DataInstants, faults \in ChunkFaultPlans :
          server = [kind |-> "data", rows |-> DataOf(present, FirstInstant),
                    faults |-> faults, requests |-> <<>>]

\* chunks = list(iter_time_chunks(start_dt, end_dt_exclusive, chunk_hours))
IterTimeChunks ==
    \E start_dt \in Instants, end_dt_exclusive \in Instants, chunk_hours \in -1..MaxChunkHours :
        /\ op = "none"
        /\ op' = "iter_time_chunks"
        /\ arg' = [start_dt |-> start_dt, end_dt_exclusive |-> end_dt_exclusive,
                   chunk_hours |-> chunk_hours, page_size |-> 0]
        /\ out' = iter_time_chunks(start_dt, end_dt_exclusive, chunk_hours)
        /\ UNCHANGED <<df, stats, server, slept, fetch, builder, disk>>

\* records = fetch_all_chunked("gen-jw", base_params, start_dt,
\*                             end_dt_exclusive, timeout_seconds, chunk_hours)
FetchAllChunked ==
    \E start_dt \in Instants, end_dt_exclusive \in Instants, chunk_hours \in -1..MaxChunkHours,
       page_size \in 1..2 :
        /\ op = "none"
        /\ op' = "fetch_all_chunked"
        /\ arg' = [start_dt |-> start_dt, end_dt_exclusive |-> end_dt_exclusive,
                   chunk_hours |-> chunk_hours, page_size |-> page_size]
        /\ LET c == fetch_all_chunked(server, slept, "gen-jw", base_params_of(page_size),
                                      start_dt, end_dt_exclusive, chunk_hours)
           IN out' = c.out /\ server' = c.server /\ slept' = c.slept
        /\ UNCHANGED <<df, stats, fetch, builder, disk>>

NextChunks ==
    \/ IterTimeChunks
    \/ FetchAllChunked

SpecChunks == InitChunks /\ [][NextChunks]_vars

(***************************************************************************)
(* C24: iter_time_chunks partitions the window.  For chunk_hours > 0 and   *)
(* start < end the chunks are ascending and contiguous, the first starts   *)
(* at start, the last ends at end, each is non-empty and at most           *)
(* chunk_hours long, and only the last may be shorter; there are finitely  *)
(* many (as many as the window needs).  For chunk_hours > 0 and            *)
(* start >= end there is no chunk; chunk_hours <= 0 raises ValueError.     *)
(* So the requests fetch_all_chunked opens its chunks with filter on       *)
(* windows of which every instant of [start, end) satisfies exactly one    *)
(* and no other instant any, and against a server that does not fail it    *)
(* returns the server's records of [start, end), each once, in order.      *)
(***************************************************************************)
\* The requests that carry no continuation: the first of each chunk
ChunkRequests == SelectSeq(server.requests, LAMBDA u : "skip" \notin DOMAIN u.query)

C24_ChunksPartitionWindow ==
    /\ op = "iter_time_chunks" =>
        LET s == arg.start_dt
            e == arg.end_dt_exclusive
            step == arg.chunk_hours * PerHour
            C == out.val
        IN IF arg.chunk_hours <= 0
           THEN out = Err("ValueError: chunk_hours must be > 0", <<>>)
           ELSE /\ out.ok
                /\ s >= e => C = <<>>
                /\ s < e =>
                     /\ Len(C) = (e - s + step - 1) \div step
                     /\ C[1].chunk_start = s
                     /\ C[Len(C)].chunk_end = e
                     /\ \A i \in 1..Len(C) :
                          /\ C[i].chunk_start < C[i].chunk_end
                          /\ C[i].chunk_end - C[i].chunk_start <= step
                          /\ i < Len(C) => /\ C[i].chunk_end - C[i].chunk_start = step
                                           /\ C[i + 1].chunk_start = C[i].chunk_end
    /\ (op = "fetch_all_chunked" /\ out.ok) =>
        LET Q == ChunkRequests
            inside == {t \in Instants : arg.start_dt <= t /\ t < arg.end_dt_exclusive}
            hits(t) == {i \in 1..Len(Q) : Satisfies(format_dt(t), Q[i].query.filter)}
        IN /\ \A t \in inside : Cardinality(hits(t)) = 1
           /\ \A t \in Instants \ inside : hits(t) = {}
           /\ out.val = SelectSeq(server.rows,
                           LAMBDA r : Satisfies(r.dtime_utc,
                                         build_filter(arg.start_dt, arg.end_dt_exclusive)))

\* a window across midnight fetched in three chunks, the last one shorter,
\* one of them in several pages
C24_Witness ==
    /\ op = "fetch_all_chunked"
    /\ out.ok
    /\ arg.start_dt < 24 * PerHour
    /\ arg.end_dt_exclusive > 24 * PerHour
    /\ (arg.end_dt_exclusive - arg.start_dt) % (arg.chunk_hours * PerHour) # 0
    /\ Len(ChunkRequests) = 3
    /\ Len(out.val) >= 4
    /\ Len(server.requests) > 3

(***************************************************************************)
(* run_export: chunked from the start, or one fetch with a fallback        *)
(***************************************************************************)
\* df.sort_values(["dtime_utc", "resource_code"]) of build_dataframe
RecordLess(a, b) ==
    \/ DtLess(a.dtime_utc, b.dtime_utc)
    \/ a.dtime_utc = b.dtime_utc /\ StrLess(a.resource_code, b.resource_code)

RECURSIVE InsertRecord(_, _)
InsertRecord(sorted, r) ==
    IF sorted = <<>> THEN <<r>>
    ELSE LET last == sorted[Len(sorted)]
         IN IF ~RecordLess(r, last) THEN Append(sorted, r)
            ELSE Append(InsertRecord(SubSeq(sorted, 1, Len(sorted) - 1), r), last)

\* build_dataframe(records): the rows of the CSV (every dtime_utc of the
\* model's records parses)
RECURSIVE build_dataframe(_)
build_dataframe(records) ==
    IF records = <<>> THEN <<>>
    ELSE InsertRecord(build_dataframe(SubSeq(records, 1, Len(records) - 1)),
                      records[Len(records)])

\* except HTTPError as exc: of the single fetch, which falls back to the
\* chunked fetch for a server error when chunk_hours > 0
single_or_fallback(single, base_params, config) ==
    IF single.out.ok THEN single
    ELSE IF single.out.err = "HTTPError" /\ single.out.id[1] >= 500
            /\ config.chunk_hours > 0
    THEN fetch_all_chunked(single.server, single.slept, "gen-jw", base_params,
                           config.start_dt, config.end_dt_exclusive, config.chunk_hours)
    ELSE single

\* df = build_dataframe(records); df.to_csv(out_path, index=False)
export_rows(fetched) ==
    IF ~fetched.out.ok THEN fetched
    ELSE [out |-> Ok(build_dataframe(fetched.out.val)),
          server |-> fetched.server, slept |-> fetched.slept]

\* run_export(config, out_dir): the rows written to the CSV
run_export(srv, sl, config) ==
    LET base_params == base_params_of(config.page_size)
        span == config.end_dt_exclusive - config.start_dt
    IN export_rows(
           IF config.chunk_hours > 0 /\ span > config.chunk_hours * PerHour
           THEN fetch_all_chunked(srv, sl, "gen-jw", base_params, config.start_dt,
                                  config.end_dt_exclusive, config.chunk_hours)
           ELSE single_or_fallback(
                    fetch_all(srv, sl, "gen-jw",
                              with_filter(base_params,
                                          build_filter(config.start_dt,
                                                       config.end_dt_exclusive))),
                    base_params, config))

\* The server does not fail, fails once, or fails as often as fetch_json
\* allows one request to fail
RepeatedFault(f) == [i \in 1..(DEFAULT_MAX_RETRIES + 1) |-> f]
ExportFaultPlans ==
    {<<>>, <<HTTPError(404)>>, <<OK, HTTPError(404)>>, <<HTTPError(503)>>, <<URLError>>,
     RepeatedFault(HTTPError(503)), RepeatedFault(HTTPError(500))}

InitExport ==
    /\ df = NoTable
    /\ stats = NoTable
    /\ op = "none"
    /\ arg = <<>>
    /\ out = Ok(<<>>)
    /\ slept = <<>>
    /\ fetch = NotFetching
    /\ builder = None
    /\ disk = NoDisk
    /\ \E present \in SUBSET DataInstants, faults \in ExportFaultPlans :
          server = [kind |-> "data", rows |-> DataOf(present, FirstInstant),
                    faults |-> faults, requests |-> <<>>]

\* out_path = run_export(config, out_dir), for a config as main builds it:
\* start_dt < end_dt_exclusive, page_size >= 1, chunk_hours >= 0
RunExport ==
    \E start_dt \in Instants, end_dt_exclusive \in Instants, chunk_hours \in 0..MaxChunkHours,
       page_size \in 1..2 :
        /\ op = "none"
        /\ start_dt < end_dt_exclusive
        /\ op' = "run_export"
        /\ arg' = [start_dt |-> start_dt, end_dt_exclusive |-> end_dt_exclusive,
                   chunk_hours |-> chunk_hours, page_size |-> page_size]
        /\ LET c == run_export(server, slept, arg')
           IN out' = c.out /\ server' = c.server /\ slept' = c.slept
        /\ UNCHANGED <<df, stats, fetch, builder, disk>>

NextExport == RunExport

SpecExport == InitExport /\ [][NextExport]_vars

(***************************************************************************)
(* C25: run_export fetches in chunks from the start exactly when           *)
(* chunk_hours > 0 and the window is longer than chunk_hours; otherwise it *)
(* makes one paginated fetch, and when that fails because the server keeps *)
(* answering with an HTTP status >= 500 and chunk_hours > 0, it falls back *)
(* to the chunked fetch and the CSV holds the records of the window once   *)
(* each; with chunk_hours = 0 nothing is fetched in chunks and the error   *)
(* propagates; an HTTP error below 500 always propagates.                  *)
(***************************************************************************)
WholeWindow == build_filter(arg.start_dt, arg.end_dt_exclusive)
ChunkedFromStart ==
    arg.chunk_hours > 0 /\ arg.end_dt_exclusive - arg.start_dt > arg.chunk_hours * PerHour
WindowRecords == SelectSeq(server.rows, LAMBDA r : Satisfies(r.dtime_utc, WholeWindow))

C25_ChunkedOrFallback ==
    op = "run_export" =>
        LET R == server.requests
        IN /\ Len(R) >= 1
           /\ ChunkedFromStart <=> R[1].query.filter # WholeWindow
           /\ (~ChunkedFromStart /\ arg.chunk_hours > 0
                 /\ server.faults \in {RepeatedFault(HTTPError(503)),
                                       RepeatedFault(HTTPError(500))}) =>
                 /\ out = Ok(build_dataframe(WindowRecords))
                 /\ Len(R) > Len(server.faults)
           /\ arg.chunk_hours = 0 =>
                 /\ \A n \in 1..Len(R) :
                       "skip" \notin DOMAIN R[n].query => R[n].query.filter = WholeWindow
                 /\ server.faults \in {RepeatedFault(HTTPError(503)),
                                       RepeatedFault(HTTPError(500))} => ~out.ok
           /\ \A n \in 1..Len(R) :
                 (Answer(n).k = "HTTPError" /\ Answer(n).code < 500) => out = Raise(Answer(n))

\* the server answers 503 throughout the one fetch of a window that fits
\* in a chunk: the export fails with AttributeError after one request
C25_Witness ==
    /\ op = "run_export"
    /\ ~ChunkedFromStart
    /\ arg.chunk_hours > 0
    /\ server.faults = RepeatedFault(HTTPError(503))
    /\ out = Err("AttributeError", <<>>)
    /\ Len(server.requests) = 1

(***************************************************************************)
(* IncrementalBuilder (pyPSA-learning/incremental_builder.py).  The        *)
(* functions of pypsa_pl, pypsa and pandas it calls are not part of the    *)
(* repository: a network is modelled by the names of its generators and    *)
(* links, the constraints added to it and its solver status; the capacity  *)
(* data by rows of name, component and technology.                         *)
(***************************************************************************)
MaxHistory == 2      \* the longest stage_history followed
MaxSaves == 1        \* the most checkpoints written in a session

\* Technology names and the terms filters look them up with
WIND_ONSHORE == <<"w", "i", "n", "d", " ", "o", "n">>
GRID == <<"g", "r", "i", "d">>
WIND == <<"w", "i", "n", "d">>
SOLAR == <<"s", "o", "l", "a", "r">>

\* Solver statuses (the empty one: no 'solver_status' in network.meta)
STATUS_OK == <<"o", "k">>
STATUS_WARNING == <<"w", "a", "r", "n", "i", "n", "g">>
STATUS_UNKNOWN == <<"u", "n", "k", "n", "o", "w", "n">>
NoStatus == <<>>

\* tech in x, for strings
Contains(x, tech) ==
    \E i \in 0..(Len(x) - Len(tech)) : SubSeq(x, i + 1, i + Len(tech)) = tech

\* Data frames: pd.DataFrame() has no columns and no rows
CAP_COLS == <<"name", "component", "technology">>
Frame(rows) == [k |-> "frame", columns |-> CAP_COLS, rows |-> rows]
EmptyFrame == [k |-> "frame", columns |-> <<>>, rows |-> <<>>]

\* process_capacity_data(inputs, params): the full capacity data
CapacityData ==
    Frame(<<[name |-> "wind1", component |-> "Generator", technology |-> WIND_ONSHORE],
            [name |-> "grid1", component |-> "Link", technology |-> GRID]>>)

\* filter_capacity_data(df_cap, filters), for the keys technology (partial
\* match) and component (exact match); df_cap.copy() fails on None
filter_capacity_data(df_cap, filters) ==
    IF df_cap = None THEN Err("AttributeError", <<>>)
    ELSE LET by_technology ==
                 IF "technology" \in DOMAIN filters
                 THEN SelectSeq(df_cap.rows,
                         LAMBDA r : \E i \in 1..Len(filters.technology) :
                                        Contains(r.technology, filters.technology[i]))
                 ELSE df_cap.rows
             by_component ==
                 IF "component" \in DOMAIN filters
                 THEN SelectSeq(by_technology,
                         LAMBDA r : \E i \in 1..Len(filters.component) :
                                        r.component = filters.component[i])
                 ELSE by_technology
         IN Ok([df_cap EXCEPT !.rows = by_component])

\* pd.concat([a, b], ignore_index=True): None is dropped
concat(a, b) ==
    IF a = None THEN b
    ELSE [k |-> "frame", columns |-> IF a.columns = <<>> THEN b.columns ELSE a.columns,
          rows |-> a.rows \o b.rows]

\* drop_duplicates(subset='name', keep='last')
drop_duplicates(frame) ==
    LET kept == SelectSeq([i \in 1..Len(frame.rows) |->
                              [row |-> frame.rows[i],
                               last |-> \A j \in (i + 1)..Len(frame.rows) :
                                            frame.rows[j].name # frame.rows[i].name]],
                          LAMBDA e : e.last)
    IN [frame EXCEPT !.rows = [i \in 1..Len(kept) |-> kept[i].row]]

\* define_time_dependent_attributes(df_cap, params): one entry per component
define_time_dependent_attributes(df_cap) ==
    [k |-> "frame", columns |-> <<"attribute">>,
     rows |-> [i \in 1..Len(df_cap.rows) |-> df_cap.rows[i].name]]

\* create_custom_network ... add_buses_and_areas: a network without components
BaseNetwork ==
    [k |-> "network", generators |-> {}, links |-> {}, constraints |-> {},
     solver_status |-> NoStatus]

\* add_capacities(network, df_cap, df_attr_t, params)
add_capacities(network, df_cap) ==
    LET names(component) ==
            {df_cap.rows[i].name : i \in {j \in 1..Len(df_cap.rows) :
                                             df_cap.rows[j].component = component}}
    IN [network EXCEPT !.generators = @ \cup names("Generator"),
                       !.links = @ \cup names("Link")]

\* The builder after __init__
DefaultParams == [solver |-> "highs", solver_options |-> "default"]
new_builder ==
    [network |-> None, inputs |-> None, df_cap |-> None, df_attr_t |-> None,
     df_cap_full |-> None, params |-> DefaultParams, stage_history |-> <<>>]

Loaded_inputs == [k |-> "inputs"]

\* Every method gives its outcome, the builder and the disk after it
Result(o, self, d) == [out |-> o, builder |-> self, disk |-> d]

build_base_model(self, d) ==
    Result(Ok(None),
           [self EXCEPT !.inputs = Loaded_inputs,
                        !.network = BaseNetwork,
                        !.df_cap_full = CapacityData,
                        !.df_cap = EmptyFrame,
                        !.stage_history = Append(@, "base_model")],
           d)

add_components(self, d, component_type, filters, capacity_data) ==
    IF self.network = None THEN Result(Err("RuntimeError", <<>>), self, d)
    ELSE IF capacity_data = None /\ filters = None
    THEN Result(Err("ValueError", <<>>), self, d)
    ELSE LET chosen == IF capacity_data # None THEN Ok(capacity_data)
                       ELSE filter_capacity_data(self.df_cap_full, filters)
             of_type == IF component_type = "None" THEN chosen.val
                        ELSE [chosen.val EXCEPT !.rows =
                                 SelectSeq(@, LAMBDA r : r.component = component_type)]
             df_cap == drop_duplicates(concat(self.df_cap, of_type))
             network == add_capacities(self.network, df_cap)
         IN IF ~chosen.ok THEN Result(chosen, self, d)
            ELSE IF Len(chosen.val.rows) = 0 THEN Result(Ok([added |-> 0]), self, d)
            ELSE IF Len(of_type.rows) = 0 THEN Result(Ok([added |-> 0]), self, d)
            ELSE Result(Ok([added |-> Len(of_type.rows),
                            total_components |-> Len(df_cap.rows),
                            generators |-> Cardinality(network.generators),
                            links |-> Cardinality(network.links)]),
                        [self EXCEPT !.df_cap = df_cap,
                                     !.df_attr_t = define_time_dependent_attributes(df_cap),
                                     !.network = network],
                        d)

\* add_energy_flow_constraints / add_capacity_constraints are given
\* self.inputs; what they do with inputs that were never loaded is theirs
\* to decide (`accepted`)
add_constraints(self, d, constraint_type, accepted) ==
    IF self.network = None THEN Result(Err("RuntimeError", <<>>), self, d)
    ELSE IF self.inputs = None /\ ~accepted THEN Result(Err("TypeError", <<>>), self, d)
    ELSE LET added == (IF constraint_type \in {"energy_flow", "all"}
                       THEN {"energy_flow"} ELSE {})
                        \cup (IF constraint_type \in {"capacity", "all"}
                              THEN {"capacity"} ELSE {})
         IN Result(Ok(None),
                   [self EXCEPT !.network.constraints = @ \cup added,
                                !.stage_history =
                                    Append(@, IF constraint_type = "all" THEN "constraints_all"
                                              ELSE IF constraint_type = "capacity"
                                              THEN "constraints_capacity"
                                              ELSE "constraints_energy_flow")],
                   d)

\* A variant that records the stage whatever the solver's status
optimize_always_recorded(self, d, solver, networks) ==
    IF self.network = None THEN Result(Err("RuntimeError", <<>>), self, d)
    ELSE IF Cardinality(self.network.generators) = 0 THEN Result(Ok(FALSE), self, d)
    ELSE LET params == IF solver # "None" THEN [self.params EXCEPT !.solver = solver]
                       ELSE self.params
             network == IF Len(networks) > 0 THEN networks[Len(networks)] ELSE self.network
         IN Result(Ok(TRUE),
                   [self EXCEPT !.params = params, !.network = network,
                                !.stage_history = Append(@, "optimized")],
                   d)

\* optimize(solver): `networks` is what optimise_network returns
optimize(self, d, solver, networks) ==
    IF self.network = None THEN Result(Err("RuntimeError", <<>>), self, d)
    ELSE IF Cardinality(self.network.generators) = 0 THEN Result(Ok(FALSE), self, d)
    ELSE LET params == IF solver # "None" THEN [self.params EXCEPT !.solver = solver]
                       ELSE self.params
             network == IF Len(networks) > 0 THEN networks[Len(networks)] ELSE self.network
             status == IF network.solver_status = NoStatus THEN STATUS_UNKNOWN
                       ELSE network.solver_status
         IN IF startswith(status, STATUS_OK)
            THEN Result(Ok(TRUE),
                        [self EXCEPT !.params = params, !.network = network,
                                     !.stage_history = Append(@, "optimized")],
                        d)
            ELSE Result(Ok(FALSE), [self EXCEPT !.params = params, !.network = network], d)

\* DataFrame.to_csv(path, index=False) and pd.read_csv(path): a frame
\* without columns is written as an empty line, which read_csv refuses
to_csv(frame) ==
    [header |-> frame.columns,
     lines |-> [i \in 1..Len(frame.rows) |->
                   <<frame.rows[i].name, frame.rows[i].component, frame.rows[i].technology>>]]
read_csv(file) ==
    IF file.header = <<>> THEN Err("EmptyDataError", <<>>)
    ELSE Ok([k |-> "frame", columns |-> file.header,
             rows |-> [i \in 1..Len(file.lines) |->
                          [name |-> file.lines[i][1], component |-> file.lines[i][2],
                           technology |-> file.lines[i][3]]]])

\* The files of a checkpoint directory (None: the file does not exist)
NoCheckpoint ==
    [k |-> "dir", network |-> None, capacity_data |-> None, time_attributes |-> None,
     stage_history |-> None]
Lines(names) == [k |-> "lines", lines |-> names]

save_checkpoint(self, d, name) ==
    IF self.network = None THEN Result(Err("RuntimeError", <<>>), self, d)
    ELSE LET before == IF d.saved = None THEN NoCheckpoint ELSE d.saved
             exported == [before EXCEPT !.network = self.network]
             with_cap == [exported EXCEPT !.capacity_data = to_csv(self.df_cap)]
             with_attr == IF self.df_attr_t # None /\ Len(self.df_attr_t.rows) > 0
                          THEN [with_cap EXCEPT !.time_attributes = self.df_attr_t]
                          ELSE with_cap
             written == [with_attr EXCEPT !.stage_history = Lines(self.stage_history)]
         IN IF self.df_cap = None
            THEN Result(Err("AttributeError", <<>>), self,
                        [saved |-> exported, saves |-> d.saves + 1])
            ELSE Result(Ok(None), self, [saved |-> written, saves |-> d.saves + 1])

\* load_checkpoint(name): the checkpoint "cp" exists once it was saved
load_checkpoint(self, d, name) ==
    IF name # "cp" \/ d.saved = None THEN Result(Err("FileNotFoundError", <<>>), self, d)
    ELSE LET imported == [self EXCEPT !.network = d.saved.network]
             capacity == IF d.saved.capacity_data = None THEN Err("FileNotFoundError", <<>>)
                         ELSE read_csv(d.saved.capacity_data)
             with_cap == [imported EXCEPT !.df_cap = capacity.val]
             with_attr == IF d.saved.time_attributes # None
                          THEN [with_cap EXCEPT !.df_attr_t = d.saved.time_attributes]
                          ELSE with_cap
             loaded == IF d.saved.stage_history # None
                       THEN [with_attr EXCEPT !.stage_history = d.saved.stage_history.lines]
                       ELSE with_attr
         IN IF ~capacity.ok THEN Result(capacity, imported, d)
            ELSE Result(Ok(None), loaded, d)

\* What the commands of a session are given: add_components without
\* filters and data, with filters that match a generator, nothing, a link
\* (asked for as a generator or as any type), with data of its own
AddCalls ==
    {[component_type |-> "None", filters |-> None, capacity_data |-> None],
     [component_type |-> "Generator", filters |-> [k |-> "dict", technology |-> <<WIND>>],
      capacity_data |-> None],
     [component_type |-> "None", filters |-> [k |-> "dict", technology |-> <<SOLAR>>],
      capacity_data |-> None],
     [component_type |-> "Generator", filters |-> [k |-> "dict", component |-> <<"Link">>],
      capacity_data |-> None],
     [component_type |-> "None", filters |-> [k |-> "dict", component |-> <<"Link">>],
      capacity_data |-> None],
     [component_type |-> "None", filters |-> None,
      capacity_data |-> Frame(<<[name |-> "wind1", component |-> "Generator",
                                 technology |-> WIND_ONSHORE]>>)]}
ConstraintTypes == {"energy_flow", "all"}
Solvers == {"None", "gurobi"}
CheckpointNames == {"cp", "missing"}

\* What optimise_network may return for a network: nothing, or the network
\* with a solver status in its meta
SolverRuns(network) ==
    {<<>>} \cup {<<[network EXCEPT !.solver_status = s]>> : s \in {STATUS_OK, STATUS_WARNING}}

\* The session: builder = IncrementalBuilder(...), no checkpoint on disk
InitSession ==
    /\ df = NoTable
    /\ stats = NoTable
    /\ op = "init"
    /\ arg = None
    /\ out = Ok(None)
    /\ server = NoServer
    /\ slept = <<>>
    /\ fetch = NotFetching
    /\ builder = new_builder
    /\ disk = NoDisk

\* A method called with `a` has ended as `r`
Ends(a, r) ==
    /\ arg' = a
    /\ out' = r.out
    /\ builder' = r.builder
    /\ disk' = r.disk
    /\ UNCHANGED <<df, stats, server, slept, fetch>>

\* builder = IncrementalBuilder(...): a new builder, the disk stays
InitBuilder ==
    /\ op' = "init"
    /\ Ends(None, Result(Ok(None), new_builder, disk))

BuildBaseModel ==
    /\ Len(builder.stage_history) < MaxHistory
    /\ op' = "build_base_model"
    /\ Ends(None, build_base_model(builder, disk))

AddComponents ==
    \E call \in AddCalls :
        /\ op' = "add_components"
        /\ Ends(call, add_components(builder, disk, call.component_type, call.filters,
                                     call.capacity_data))

AddConstraints ==
    \E constraint_type \in ConstraintTypes,
       accepted \in (IF builder.inputs = None THEN BOOLEAN ELSE {TRUE}) :
        /\ Len(builder.stage_history) < MaxHistory
        /\ op' = "add_constraints"
        /\ Ends([constraint_type |-> constraint_type],
                add_constraints(builder, disk, constraint_type, accepted))

Optimize ==
    \E solver \in Solvers :
      \E networks \in (IF builder.network = None THEN {<<>>}
                       ELSE SolverRuns(builder.network)) :
        /\ Len(builder.stage_history) < MaxHistory
        /\ op' = "optimize"
        /\ Ends([solver |-> solver, networks |-> networks],
                optimize(builder, disk, solver, networks))

SaveCheckpoint ==
    /\ builder.network # None => disk.saves < MaxSaves
    /\ op' = "save_checkpoint"
    /\ Ends([name |-> "cp"], save_checkpoint(builder, disk, "cp"))

LoadCheckpoint ==
    \E name \in CheckpointNames :
        /\ op' = "load_checkpoint"
        /\ Ends([name |-> name], load_checkpoint(builder, disk, name))

NextBuilder ==
    \/ InitBuilder
    \/ BuildBaseModel
    \/ AddComponents
    \/ AddConstraints
    \/ Optimize
    \/ SaveCheckpoint
    \/ LoadCheckpoint

SpecBuilder == InitSession /\ [][NextBuilder]_vars

\* ---------------------------------------------------------------------
\* C26: add_components, add_constraints, optimize and save_checkpoint
\* called while no network exists raise RuntimeError and leave the builder
\* (network, df_cap, df_attr_t, params, stage_history) as it was;
\* add_components with neither filters nor capacity_data raises
\* ValueError; and add_components with filters that match nothing in the
\* capacity data returns {'added': 0} and changes neither df_cap nor the
\* network.
NeedsNetwork == {"add_components", "add_constraints", "optimize", "save_checkpoint"}
MatchesNothing(filters) == filter_capacity_data(CapacityData, filters).val.rows = <<>>
C26_StageOrderEnforced ==
    [][/\ (builder.network = None /\ op' \in NeedsNetwork)
            => (~out'.ok /\ out'.err = "RuntimeError" /\ builder' = builder)
       /\ (builder.network # None /\ op' = "add_components"
             /\ arg'.filters = None /\ arg'.capacity_data = None)
            => (~out'.ok /\ out'.err = "ValueError" /\ builder' = builder)
       /\ (builder.network # None /\ op' = "add_components"
             /\ arg'.capacity_data = None /\ arg'.filters # None
             /\ MatchesNothing(arg'.filters))
            => (/\ out'.ok
                /\ out'.val = [added |-> 0]
                /\ builder'.df_cap = builder.df_cap
                /\ builder'.network = builder.network)]_vars

\* The parts of C26 that hold: the RuntimeError and the ValueError
C26_ErrorsLeaveBuilder ==
    [][/\ (builder.network = None /\ op' \in NeedsNetwork)
            => (~out'.ok /\ out'.err = "RuntimeError" /\ builder' = builder)
       /\ (builder.network # None /\ op' = "add_components"
             /\ arg'.filters = None /\ arg'.capacity_data = None)
            => (~out'.ok /\ out'.err = "ValueError" /\ builder' = builder)]_vars

\* add_components with filters that match nothing, on a builder whose
\* network came from load_checkpoint, has raised AttributeError
C26_Witness ==
    /\ op = "add_components"
    /\ builder.network # None
    /\ builder.df_cap # None
    /\ builder.df_cap_full = None
    /\ builder.stage_history = <<"base_model">>
    /\ arg.capacity_data = None
    /\ arg.filters # None
    /\ MatchesNothing(arg.filters)
    /\ ~out.ok
    /\ out.err = "AttributeError"

\* ---------------------------------------------------------------------
\* C27: optimize on a network with generators returns True exactly when
\* the solver status of the network after the run starts with 'ok', and
\* appends 'optimized' to stage_history exactly then; on a network without
\* generators it returns False and leaves network, params and
\* stage_history as they were; build_base_model appends 'base_model',
\* add_constraints appends 'constraints_<type>', and no building
\* operation removes or reorders earlier entries of stage_history.
BuildingOperations == {"build_base_model", "add_components", "add_constraints", "optimize"}
StatusOf(network) ==
    IF network.solver_status = NoStatus THEN STATUS_UNKNOWN ELSE network.solver_status
IsPrefixOf(s, t) == Len(s) <= Len(t) /\ SubSeq(t, 1, Len(s)) = s
C27_OptimizeRecordsSuccess ==
    [][/\ (op' = "optimize" /\ builder.network # None
             /\ builder.network.generators # {})
            => /\ out'.ok
               /\ out'.val = startswith(StatusOf(builder'.network), STATUS_OK)
               /\ builder'.stage_history =
                      IF out'.val THEN Append(builder.stage_history, "optimized")
                      ELSE builder.stage_history
       /\ (op' = "optimize" /\ builder.network # None
             /\ builder.network.generators = {})
            => /\ out'.ok
               /\ out'.val = FALSE
               /\ builder'.network = builder.network
               /\ builder'.params = builder.params
               /\ builder'.stage_history = builder.stage_history
       /\ op' = "build_base_model"
            => builder'.stage_history = Append(builder.stage_history, "base_model")
       /\ (op' = "add_constraints" /\ out'.ok)
            => builder'.stage_history =
                   Append(builder.stage_history,
                          IF arg'.constraint_type = "all" THEN "constraints_all"
                          ELSE "constraints_energy_flow")
       /\ op' \in BuildingOperations
            => IsPrefixOf(builder.stage_history, builder'.stage_history)]_vars

\* optimize has succeeded on a built network and was recorded; the solver
\* was run with the solver asked for
C27_Witness ==
    /\ op = "optimize"
    /\ arg.solver = "gurobi"
    /\ out.ok
    /\ out.val = TRUE
    /\ builder.network.solver_status = STATUS_OK
    /\ builder.params.solver = "gurobi"
    /\ builder.stage_history = <<"base_model", "optimized">>

\* ---------------------------------------------------------------------
\* C28: after save_checkpoint(name), load_checkpoint(name) on a builder
\* that has not run build_base_model gives a builder whose stage_history
\* and df_cap are the saved ones, and on which add_components with filters
\* does what it does on a builder that ran build_base_model: it adds the
\* matching components.
FreshlyLoaded ==
    /\ op = "load_checkpoint"
    /\ out.ok
    /\ builder.df_cap_full = None
Built(self) == [self EXCEPT !.inputs = Loaded_inputs, !.df_cap_full = CapacityData]
C28_CheckpointRestoresUsableBuilder ==
    [][/\ (builder = new_builder /\ op' = "load_checkpoint" /\ out'.ok)
            => /\ builder'.stage_history = disk.saved.stage_history.lines
               /\ to_csv(builder'.df_cap) = disk.saved.capacity_data
               /\ builder'.network = disk.saved.network
       /\ (FreshlyLoaded /\ op' = "add_components" /\ arg'.filters # None
             /\ arg'.capacity_data = None)
            => LET expected == add_components(Built(builder), disk, arg'.component_type,
                                              arg'.filters, arg'.capacity_data)
               IN /\ out' = expected.out
                  /\ builder'.network = expected.builder.network
                  /\ builder'.df_cap = expected.builder.df_cap]_vars

\* What load_checkpoint does restore: network, df_cap and stage_history
C28_LoadRestoresSavedState ==
    [][(builder = new_builder /\ op' = "load_checkpoint" /\ out'.ok)
            => /\ builder'.stage_history = disk.saved.stage_history.lines
               /\ to_csv(builder'.df_cap) = disk.saved.capacity_data
               /\ builder'.network = disk.saved.network]_vars

\* A checkpoint with a generator was loaded by a new builder, and
\* add_components with a filter that matches a row of the capacity data
\* has raised AttributeError
C28_Witness ==
    /\ op = "add_components"
    /\ builder.network # None
    /\ builder.network.generators # {}
    /\ builder.df_cap # None
    /\ builder.df_cap_full = None
    /\ builder.stage_history = <<"base_model">>
    /\ arg.capacity_data = None
    /\ arg.filters # None
    /\ ~MatchesNothing(arg.filters)
    /\ ~out.ok
    /\ out.err = "AttributeError"

====
